---- MODULE Spec2Model ----
(***************************************************************************)
(* Verification model of the wellness-agent core: the nutrition-target     *)
(* calculator (diet_engine.py), the medical-aware recipe recommender       *)
(* (recipe_recommender.py, medical_constraints.py), the collaborative      *)
(* models (collaborative_models.py) and the hybrid blender                 *)
(* (hybrid_recommender.py).                                                *)
(*                                                                         *)
(* Python floats are IEEE-754 binary64 values.  They are modelled exactly: *)
(* a float is a record [s, m, e] standing for (-1)^s * m * 2^e, with m a   *)
(* 53-bit natural number kept as a little-endian sequence of 15-bit limbs  *)
(* (TLC integers are 32 bits wide), and every arithmetic operation rounds  *)
(* its exact result to nearest, ties to even.  NaN, infinities and         *)
(* subnormals do not occur in the value ranges modelled here.              *)
(***************************************************************************)
EXTENDS Integers, Sequences, FiniteSets, TLC

\* ------------------------------------------------------------------------
\* Natural numbers of arbitrary size (little-endian limbs, no leading zero)
\* ------------------------------------------------------------------------
LimbBits == 15

Base == 2^LimbBits

MantBits == 53

MaxOf(a, b) == IF a >= b THEN a ELSE b

MinOf(a, b) == IF a <= b THEN a ELSE b

AbsInt(n) == IF n < 0 THEN 0 - n ELSE n

RECURSIVE BNNorm(_)
BNNorm(a) ==
    IF a = <<>> THEN <<>>
    ELSE IF a[Len(a)] = 0 THEN BNNorm(SubSeq(a, 1, Len(a) - 1)) ELSE a

RECURSIVE BNFromNat(_)
BNFromNat(n) == IF n = 0 THEN <<>> ELSE <<n % Base>> \o BNFromNat(n \div Base)

RECURSIVE BNToNat(_)
BNToNat(a) == IF a = <<>> THEN 0 ELSE a[1] + Base * BNToNat(Tail(a))

BNLimb(a, i) == IF i <= Len(a) THEN a[i] ELSE 0

RECURSIVE BNAddC(_, _, _, _)
BNAddC(a, b, i, c) ==
    IF i > Len(a) /\ i > Len(b)
    THEN (IF c = 0 THEN <<>> ELSE <<c>>)
    ELSE LET s == BNLimb(a, i) + BNLimb(b, i) + c
         IN  <<s % Base>> \o BNAddC(a, b, i + 1, s \div Base)

BNAdd(a, b) == BNAddC(a, b, 1, 0)

RECURSIVE BNSubC(_, _, _, _)
BNSubC(a, b, i, c) ==
    IF i > Len(a) THEN <<>>
    ELSE LET d == a[i] - BNLimb(b, i) - c
         IN  IF d < 0 THEN <<d + Base>> \o BNSubC(a, b, i + 1, 1)
             ELSE <<d>> \o BNSubC(a, b, i + 1, 0)

\* a - b for a >= b
BNSub(a, b) == BNNorm(BNSubC(a, b, 1, 0))

RECURSIVE BNCmpAt(_, _, _)
BNCmpAt(a, b, i) ==
    IF i = 0 THEN 0
    ELSE IF a[i] > b[i] THEN 1
    ELSE IF a[i] < b[i] THEN -1
    ELSE BNCmpAt(a, b, i - 1)

\* -1, 0, 1 as a < b, a = b, a > b
BNCmp(a, b) ==
    IF Len(a) > Len(b) THEN 1
    ELSE IF Len(a) < Len(b) THEN -1
    ELSE BNCmpAt(a, b, Len(a))

RECURSIVE BNMulSmallC(_, _, _, _)
BNMulSmallC(a, k, i, c) ==
    IF i > Len(a) THEN (IF c = 0 THEN <<>> ELSE <<c>>)
    ELSE LET p == a[i] * k + c
         IN  <<p % Base>> \o BNMulSmallC(a, k, i + 1, p \div Base)

\* a * k for 0 <= k < Base
BNMulSmall(a, k) == IF k = 0 THEN <<>> ELSE BNMulSmallC(a, k, 1, 0)

BNZeros(n) == [i \in 1..n |-> 0]

BNShiftLimbs(a, n) == IF a = <<>> THEN <<>> ELSE BNZeros(n) \o a

RECURSIVE BNMulAt(_, _, _)
BNMulAt(a, b, j) ==
    IF j > Len(b) THEN <<>>
    ELSE BNAdd(BNShiftLimbs(BNMulSmall(a, b[j]), j - 1), BNMulAt(a, b, j + 1))

BNMul(a, b) == BNMulAt(a, b, 1)

\* a * 2^k
BNShl(a, k) == BNShiftLimbs(BNMulSmall(a, 2^(k % LimbBits)), k \div LimbBits)

\* short division from limb i down, r the remainder and q the quotient limbs so far
RECURSIVE BNDivSmallAt(_, _, _, _, _)
BNDivSmallAt(a, d, i, r, q) ==
    IF i = 0 THEN [q |-> BNNorm(q), r |-> r]
    ELSE BNDivSmallAt(a, d, i - 1, (r * Base + a[i]) % d, <<(r * Base + a[i]) \div d>> \o q)

\* quotient and remainder of a by d, for 0 < d < Base
BNDivSmall(a, d) == BNDivSmallAt(a, d, Len(a), 0, <<>>)

BNDropLimbs(a, n) == IF n >= Len(a) THEN <<>> ELSE SubSeq(a, n + 1, Len(a))

\* floor(a / 2^k)
BNShr(a, k) == BNDivSmall(BNDropLimbs(a, k \div LimbBits), 2^(k % LimbBits)).q

RECURSIVE BitLenNat(_)
BitLenNat(n) == IF n = 0 THEN 0 ELSE 1 + BitLenNat(n \div 2)

BNBitLen(a) == IF a = <<>> THEN 0 ELSE LimbBits * (Len(a) - 1) + BitLenNat(a[Len(a)])

BNBit(a, i) == (BNLimb(a, (i \div LimbBits) + 1) \div 2^(i % LimbBits)) % 2

BNIsOdd(a) == a # <<>> /\ a[1] % 2 = 1

RECURSIVE BNTrailingZeros(_)
BNTrailingZeros(a) ==
    IF a = <<>> THEN 0
    ELSE IF a[1] = 0 THEN LimbBits + BNTrailingZeros(Tail(a))
    ELSE IF a[1] % 2 = 0 THEN 1 + BNTrailingZeros(<<a[1] \div 2>>)
    ELSE 0

\* the largest digit d in lo..hi with b * d <= r
RECURSIVE BNDigitSearch(_, _, _, _)
BNDigitSearch(r, b, lo, hi) ==
    IF lo = hi THEN lo
    ELSE LET mid == (lo + hi + 1) \div 2
         IN  IF BNCmp(BNMulSmall(b, mid), r) <= 0
             THEN BNDigitSearch(r, b, mid, hi)
             ELSE BNDigitSearch(r, b, lo, mid - 1)

\* long division, one limb of the dividend at a time (limbs i .. 1 remain), r the
\* remainder and q the quotient limbs so far
RECURSIVE BNDivModAt(_, _, _, _, _)
BNDivModAt(a, b, i, r, q) ==
    IF i = 0 THEN [q |-> BNNorm(q), r |-> r]
    ELSE LET Take(cur, d) == BNDivModAt(a, b, i - 1, BNSub(cur, BNMulSmall(b, d)), <<d>> \o q)
             Step(cur)    == Take(cur, BNDigitSearch(cur, b, 0, Base - 1))
         IN  Step(BNNorm(<<a[i]>> \o r))

\* quotient and remainder of a by b, for b > 0
BNDivMod(a, b) ==
    IF Len(b) = 1
    THEN LET Wide(res) == [q |-> res.q, r |-> BNFromNat(res.r)] IN Wide(BNDivSmall(a, b[1]))
    ELSE BNDivModAt(a, b, Len(a), <<>>, <<>>)

\* ------------------------------------------------------------------------
\* IEEE-754 binary64 arithmetic, round to nearest, ties to even
\* ------------------------------------------------------------------------
FZero == [s |-> 0, m |-> <<>>, e |-> 0]

FIsZero(x) == x.m = <<>>

\* the float nearest to (-1)^s * M * 2^E
FRound(s, M, E) ==
    IF M = <<>> THEN FZero
    ELSE LET Pack(q2, k)  == IF BNBitLen(q2) > MantBits
                             THEN [s |-> s, m |-> BNShr(q2, 1), e |-> E + k + 1]
                             ELSE [s |-> s, m |-> q2, e |-> E + k]
             Up(q, c)     == c = 1 \/ (c = 0 /\ BNIsOdd(q))
             Nearest(q, k) ==
                 Pack(IF Up(q, BNCmp(BNSub(M, BNShl(q, k)), BNShl(<<1>>, k - 1)))
                      THEN BNAdd(q, <<1>>) ELSE q,
                      k)
             Fit(bl)      == IF bl <= MantBits
                             THEN [s |-> s, m |-> BNShl(M, MantBits - bl), e |-> E - (MantBits - bl)]
                             ELSE Nearest(BNShr(M, bl - MantBits), bl - MantBits)
         IN  Fit(BNBitLen(M))

\* int -> float
FromInt(n) == FRound(IF n < 0 THEN 1 ELSE 0, BNFromNat(AbsInt(n)), 0)

FNeg(x) == IF FIsZero(x) THEN x ELSE [x EXCEPT !.s = 1 - x.s]

FAbs(x) == [x EXCEPT !.s = 0]

\* -1, 0, 1 as |x| < |y|, |x| = |y|, |x| > |y|
FCmpMag(x, y) ==
    IF FIsZero(x) THEN (IF FIsZero(y) THEN 0 ELSE -1)
    ELSE IF FIsZero(y) THEN 1
    ELSE IF x.e > y.e THEN 1
    ELSE IF x.e < y.e THEN -1
    ELSE BNCmp(x.m, y.m)

FCmp(x, y) ==
    IF x.s = 0 /\ y.s = 0 THEN FCmpMag(x, y)
    ELSE IF x.s = 1 /\ y.s = 1 THEN FCmpMag(y, x)
    ELSE IF x.s = 1 THEN -1 ELSE 1

FLt(x, y) == FCmp(x, y) < 0

FLe(x, y) == FCmp(x, y) <= 0

FGt(x, y) == FCmp(x, y) > 0

FGe(x, y) == FCmp(x, y) >= 0

FAdd(x, y) ==
    IF FIsZero(x) THEN y
    ELSE IF FIsZero(y) THEN x
    ELSE LET e0 == MinOf(x.e, y.e)
             Differ(X, Y, c) == IF c = 0 THEN FZero
                                ELSE IF c > 0 THEN FRound(x.s, BNSub(X, Y), e0)
                                ELSE FRound(y.s, BNSub(Y, X), e0)
             Aligned(X, Y)   == IF x.s = y.s THEN FRound(x.s, BNAdd(X, Y), e0)
                                ELSE Differ(X, Y, BNCmp(X, Y))
         IN  Aligned(BNShl(x.m, x.e - e0), BNShl(y.m, y.e - e0))

FSub(x, y) == FAdd(x, FNeg(y))

FMul(x, y) ==
    IF FIsZero(x) \/ FIsZero(y) THEN FZero
    ELSE FRound((x.s + y.s) % 2, BNMul(x.m, y.m), x.e + y.e)

\* x / y for y # 0; the quotient keeps 57 bits or more and a sticky bit
FDiv(x, y) ==
    IF FIsZero(x) THEN FZero
    ELSE LET Sticky(qr)   == IF qr.r = <<>> THEN BNShl(qr.q, 1) ELSE BNAdd(BNShl(qr.q, 1), <<1>>)
             Quotient(tz) == FRound((x.s + y.s) % 2,
                                    Sticky(BNDivMod(BNShl(x.m, MantBits + 4), BNShr(y.m, tz))),
                                    x.e - (y.e + tz) - (MantBits + 4) - 1)
         IN  Quotient(BNTrailingZeros(y.m))

\* a decimal literal n/d (d a power of ten): the float nearest to the quotient
Dec(n, d) == FDiv(FromInt(n), FromInt(d))

\* Python min(a, b) / max(a, b): the first argument unless the second is smaller / larger
FMin(a, b) == IF FLt(b, a) THEN b ELSE a

FMax(a, b) == IF FGt(b, a) THEN b ELSE a

\* int(x): truncation toward zero
FTrunc(x) ==
    IF FIsZero(x) THEN 0
    ELSE LET Signed(mag) == IF x.s = 1 THEN 0 - mag ELSE mag
         IN  Signed(IF x.e >= 0 THEN BNToNat(BNShl(x.m, x.e)) ELSE BNToNat(BNShr(x.m, 0 - x.e)))

\* round(x): nearest integer, ties to even
FRoundInt(x) ==
    IF FIsZero(x) THEN 0
    ELSE IF x.e >= 0 THEN FTrunc(x)
    ELSE LET k == 0 - x.e
             Signed(mag) == IF x.s = 1 THEN 0 - mag ELSE mag
             Up(q, c)    == c = 1 \/ (c = 0 /\ BNIsOdd(q))
             Nearest(q)  ==
                 Signed(BNToNat(q)
                        + (IF Up(q, BNCmp(BNSub(x.m, BNShl(q, k)), BNShl(<<1>>, k - 1)))
                           THEN 1 ELSE 0))
         IN  Nearest(BNShr(x.m, k))

\* round(x, 2): the float nearest to the two-decimal value nearest to x
FRound2(x) ==
    IF FIsZero(x) THEN FZero
    ELSE LET k == 0 - x.e
             Up(q, c)         == c = 1 \/ (c = 0 /\ BNIsOdd(q))
             Nearest(M100, q) ==
                 IF Up(q, BNCmp(BNSub(M100, BNShl(q, k)), BNShl(<<1>>, k - 1)))
                 THEN BNAdd(q, <<1>>) ELSE q
             Hundredths(M100) == IF x.e >= 0 THEN BNShl(M100, x.e)
                                 ELSE Nearest(M100, BNShr(M100, k))
         IN  FDiv(FRound(x.s, Hundredths(BNMulSmall(x.m, 100)), 0), FromInt(100))

\* ------------------------------------------------------------------------
\* Text.  A str is a sequence of one-character strings, so that substring
\* search, case folding and stripping are computed and not assumed.
\* Patterns handed to pandas str.contains are regular expressions; the
\* characters modelled are letters, the blank, '-' and the alternation bar.
\* ------------------------------------------------------------------------
UpperChars == <<"A", "B", "C", "D", "E", "F", "G", "H", "I", "J", "K", "L", "M",
                "N", "O", "P", "Q", "R", "S", "T", "U", "V", "W", "X", "Y", "Z">>

LowerChars == <<"a", "b", "c", "d", "e", "f", "g", "h", "i", "j", "k", "l", "m",
                "n", "o", "p", "q", "r", "s", "t", "u", "v", "w", "x", "y", "z">>

ToLower(c) ==
    IF \E i \in DOMAIN UpperChars : UpperChars[i] = c
    THEN LowerChars[CHOOSE i \in DOMAIN UpperChars : UpperChars[i] = c]
    ELSE c

ToUpper(c) ==
    IF \E i \in DOMAIN LowerChars : LowerChars[i] = c
    THEN UpperChars[CHOOSE i \in DOMAIN LowerChars : LowerChars[i] = c]
    ELSE c

\* str.lower() / str.upper()
Lower(s) == [i \in 1..Len(s) |-> ToLower(s[i])]

Upper(s) == [i \in 1..Len(s) |-> ToUpper(s[i])]

\* str.replace(old, new) for one-character old and new
Replace(s, old, new) == [i \in 1..Len(s) |-> IF s[i] = old THEN new ELSE s[i]]

RECURSIVE LStrip(_)
LStrip(s) == IF s # <<>> /\ s[1] = " " THEN LStrip(Tail(s)) ELSE s

RECURSIVE RStrip(_)
RStrip(s) == IF s # <<>> /\ s[Len(s)] = " " THEN RStrip(SubSeq(s, 1, Len(s) - 1)) ELSE s

\* str.strip()
Strip(s) == RStrip(LStrip(s))

\* pat in text
Contains(text, pat) ==
    \E i \in 0..(Len(text) - Len(pat)) : SubSeq(text, i + 1, i + Len(pat)) = pat

\* the alternatives of a pattern: the pieces between the bars
RECURSIVE Alternatives(_, _)
Alternatives(pat, cur) ==
    IF pat = <<>> THEN {cur}
    ELSE IF pat[1] = "|" THEN {cur} \cup Alternatives(Tail(pat), <<>>)
    ELSE Alternatives(Tail(pat), Append(cur, pat[1]))

\* a missing value (NaN) in a text column
NA == <<"NaN">>

NotNA(v) == v # NA

\* a faulty variant: the match is case-sensitive
StrContains_CaseSensitive(cell, pat) ==
    /\ NotNA(cell)
    /\ \E alt \in Alternatives(pat, <<>>) : Contains(cell, alt)

\* Series.str.contains(pat, case=False, na=False) for one cell
StrContains(cell, pat) ==
    /\ NotNA(cell)
    /\ \E alt \in Alternatives(Lower(pat), <<>>) : Contains(Lower(cell), alt)

\* ------------------------------------------------------------------------
\* State
\* ------------------------------------------------------------------------
VARIABLES
    recipes,     \* MedicalAwareRecipeRecommender.recipes: the catalog after _preprocess_recipes
    tier3,       \* HybridRecommender.has_tier3 and tier3_model
    call,        \* the request being served: operation and arguments
    ret,         \* what the operation returned
    trace,       \* what the operation did on the way (calls made, cause of an empty result)
    empties,     \* the empty results seen so far, each with its cause
    hybrid_recommender,  \* app.py's global of that name: the instance it refers to, if any
    built,       \* how many HybridRecommender instances the process has constructed
    threads,     \* the request threads of the server: where each is in its handler
    loaded,      \* the catalog and the model as they were when the process had loaded them
    recipe_recommender   \* app.py's global of that name: "loaded", or "None" when loading failed

\* the part of the state that belongs to the threaded server
server == <<hybrid_recommender, built, threads, loaded, recipe_recommender>>

vars == <<recipes, tier3, call, ret, trace, empties, hybrid_recommender, built, threads, loaded,
          recipe_recommender>>

Idle == [op |-> "idle"]

NoTrace == [op |-> "none"]

\* ------------------------------------------------------------------------
\* diet_engine.py
\* ------------------------------------------------------------------------
\* x in a Python list
InList(x, list) == \E i \in DOMAIN list : list[i] = x

\* a faulty variant of the last term: the gender is compared without upper()
GenderTerm_CaseSensitive(part, gender) ==
    IF gender = <<"M">> THEN FAdd(part, FromInt(5)) ELSE FSub(part, FromInt(161))

\* the last term of the Mifflin-St Jeor equation: + 5 for M, - 161 otherwise
GenderTerm(part, gender) ==
    IF Upper(gender) = <<"M">> THEN FAdd(part, FromInt(5)) ELSE FSub(part, FromInt(161))

\* DietEngine.calculate_bmr
calculate_bmr(age, gender, weight_kg, height_cm) ==
    FRound2(GenderTerm(FSub(FAdd(FromInt(10 * weight_kg), FMul(Dec(625, 100), FromInt(height_cm))),
                            FromInt(5 * age)),
                       gender))

\* the multipliers table of calculate_tdee, with its .get default
Multiplier(activity_level) ==
    CASE activity_level = "sedentary" -> Dec(12, 10)
      [] activity_level = "lightly_active" -> Dec(1375, 1000)
      [] activity_level = "moderately_active" -> Dec(155, 100)
      [] activity_level = "very_active" -> Dec(1725, 1000)
      [] activity_level = "extra_active" -> Dec(19, 10)
      [] OTHER -> Dec(12, 10)

\* DietEngine.calculate_tdee
calculate_tdee(bmr, activity_level) == FRound2(FMul(bmr, Multiplier(activity_level)))

IsVeg(diet_type) == diet_type \in {<<"V", "e", "g", "e", "t", "a", "r", "i", "a", "n">>, <<"V", "e", "g", "a", "n">>}

\* the base split of calculate_macros: <<protein_pct, carbs_pct, fat_pct>>
BasePct(goal, diet_type) ==
    IF goal = "weight_loss"
    THEN IF IsVeg(diet_type) THEN <<Dec(20, 100), Dec(50, 100), Dec(30, 100)>>
         ELSE <<Dec(30, 100), Dec(40, 100), Dec(30, 100)>>
    ELSE IF goal = "muscle_gain"
    THEN IF IsVeg(diet_type) THEN <<Dec(25, 100), Dec(50, 100), Dec(25, 100)>>
         ELSE <<Dec(35, 100), Dec(45, 100), Dec(20, 100)>>
    ELSE <<Dec(20, 100), Dec(50, 100), Dec(30, 100)>>

\* the medical adjustments of calculate_macros, applied in source order
\* a faulty variant: the shift is applied for each of the two conditions listed
AdjustDiabetes_PerCondition(p, conds) ==
    IF InList("diabetes", conds) /\ InList("pre_diabetes", conds)
    THEN <<p[1], FSub(FSub(p[2], Dec(10, 100)), Dec(10, 100)),
           FAdd(FAdd(p[3], Dec(10, 100)), Dec(10, 100))>>
    ELSE IF InList("diabetes", conds) \/ InList("pre_diabetes", conds)
    THEN <<p[1], FSub(p[2], Dec(10, 100)), FAdd(p[3], Dec(10, 100))>>
    ELSE p

AdjustDiabetes(p, conds) ==
    IF InList("diabetes", conds) \/ InList("pre_diabetes", conds)
    THEN <<p[1], FSub(p[2], Dec(10, 100)), FAdd(p[3], Dec(10, 100))>>
    ELSE p

AdjustKidney(p, conds) ==
    IF InList("kidney_disease", conds)
    THEN <<FSub(p[1], Dec(10, 100)), FAdd(p[2], Dec(10, 100)), p[3]>>
    ELSE p

\* a faulty variant: the fat taken away is not given to the carbohydrates
AdjustHeart_NotCompensated(p, conds) ==
    IF InList("heart_disease", conds) \/ InList("high_cholesterol", conds)
    THEN <<p[1], p[2], FSub(p[3], Dec(5, 100))>>
    ELSE p

AdjustHeart(p, conds) ==
    IF InList("heart_disease", conds) \/ InList("high_cholesterol", conds)
    THEN <<p[1], FAdd(p[2], Dec(5, 100)), FSub(p[3], Dec(5, 100))>>
    ELSE p

AdjustedPct(goal, conds, diet_type) ==
    AdjustHeart(AdjustKidney(AdjustDiabetes(BasePct(goal, diet_type), conds), conds), conds)

\* "Ensure percentages sum to 100%": carbs is recomputed when the sum is off by more than 0.01
NeedsCorrection(p) ==
    FGt(FAbs(FSub(FAdd(FAdd(p[1], p[2]), p[3]), FromInt(1))), Dec(1, 100))

CorrectedPct(p) ==
    IF NeedsCorrection(p) THEN <<p[1], FSub(FSub(FromInt(1), p[1]), p[3]), p[3]>> ELSE p

FinalPct(goal, conds, diet_type) == CorrectedPct(AdjustedPct(goal, conds, diet_type))

\* DietEngine.calculate_macros
\* the grams of one macro: round((target_calories * pct) / kcal_per_gram)
Grams(target_calories, pct, kcal_per_gram) ==
    FRoundInt(FDiv(FMul(FromInt(target_calories), pct), FromInt(kcal_per_gram)))

\* the percentage reported for one macro: int(pct * 100)
Percent(pct) == FTrunc(FMul(pct, FromInt(100)))

\* the dictionary calculate_macros returns for the split p
MacroTable(target_calories, p) ==
    [m \in {"protein_g", "carbs_g", "fat_g", "protein_percent", "carbs_percent", "fat_percent"} |->
        CASE m = "protein_g" -> Grams(target_calories, p[1], 4)
          [] m = "carbs_g"   -> Grams(target_calories, p[2], 4)
          [] m = "fat_g"     -> Grams(target_calories, p[3], 9)
          [] m = "protein_percent" -> Percent(p[1])
          [] m = "carbs_percent"   -> Percent(p[2])
          [] m = "fat_percent"     -> Percent(p[3])]

calculate_macros(target_calories, goal, medical_conditions, diet_type) ==
    MacroTable(target_calories, FinalPct(goal, medical_conditions, diet_type))

\* Step 3 of generate_personalized_plan: the goal adjustment
GoalAdjusted(tdee, goal) ==
    IF goal = "weight_loss" THEN FSub(tdee, FromInt(500))
    ELSE IF goal = "muscle_gain" THEN FAdd(tdee, FromInt(300))
    ELSE tdee

\* a faulty variant of Step 4: the gender is compared without upper()
SafetyFloor_CaseSensitive(gender) == IF gender = <<"F">> THEN 1200 ELSE 1500

\* Step 4 of generate_personalized_plan: the safety minimum
SafetyFloor(gender) == IF Upper(gender) = <<"F">> THEN 1200 ELSE 1500

\* target_calories = round(max(floor, adjusted))
TargetCalories(tdee, goal, gender) ==
    FRoundInt(FMax(FromInt(SafetyFloor(gender)), GoalAdjusted(tdee, goal)))

\* one meal of Step 6, share given in hundredths
MealShare(target_calories, macros, n, d) ==
    [k \in {"calories", "protein_g", "carbs_g", "fat_g"} |->
        FRoundInt(FMul(FromInt(IF k = "calories" THEN target_calories ELSE macros[k]), Dec(n, d)))]

RequiredFields == <<"age", "gender", "weight_kg", "height_cm", "activity_level", "goal">>

\* the first required key the pipeline reads that the profile lacks
RECURSIVE FirstMissing(_, _)
FirstMissing(profile, i) ==
    IF i > Len(RequiredFields) THEN "none"
    ELSE IF RequiredFields[i] \notin DOMAIN profile THEN RequiredFields[i]
    ELSE FirstMissing(profile, i + 1)

\* dict.get(key, default)
Get(d, key, default) == IF key \in DOMAIN d THEN d[key] ELSE default

\* Steps 6 and 7 of generate_personalized_plan: the meals and the plan returned
Plan(user_profile, bmr, tdee, target_calories, macros) ==
    [status          |-> "ok",
     bmr             |-> bmr,
     tdee            |-> tdee,
     target_calories |-> target_calories,
     daily_macros    |-> macros,
     meal_breakdown  |-> [meal \in {"breakfast", "lunch", "dinner", "snacks"} |->
                             MealShare(target_calories, macros,
                                       CASE meal = "breakfast" -> 25
                                         [] meal = "lunch"     -> 35
                                         [] meal = "dinner"    -> 30
                                         [] meal = "snacks"    -> 10,
                                       100)],
     goal            |-> user_profile.goal]

\* a faulty variant of Step 5: a profile without diet_type is taken as non-vegetarian
PlanFromTarget_NonVegDefault(user_profile, bmr, tdee, target_calories) ==
    Plan(user_profile, bmr, tdee, target_calories,
         calculate_macros(target_calories, user_profile.goal,
                          Get(user_profile, "medical_conditions", <<>>),
                          Get(user_profile, "diet_type", <<"N", "o", "n", "-", "v", "e", "g", "e", "t", "a", "r", "i", "a", "n">>)))

\* Step 5: the macros for the target
PlanFromTarget(user_profile, bmr, tdee, target_calories) ==
    Plan(user_profile, bmr, tdee, target_calories,
         calculate_macros(target_calories, user_profile.goal,
                          Get(user_profile, "medical_conditions", <<>>),
                          Get(user_profile, "diet_type", <<"V", "e", "g", "e", "t", "a", "r", "i", "a", "n">>)))

\* Steps 3 and 4: the target for the TDEE
PlanFromTdee(user_profile, bmr, tdee) ==
    PlanFromTarget(user_profile, bmr, tdee,
                   TargetCalories(tdee, user_profile.goal, user_profile.gender))

\* Step 2: the TDEE for the BMR
PlanFromBmr(user_profile, bmr) ==
    PlanFromTdee(user_profile, bmr, calculate_tdee(bmr, user_profile.activity_level))

\* DietEngine.generate_personalized_plan
generate_personalized_plan(user_profile) ==
    IF FirstMissing(user_profile, 1) # "none"
    THEN [status |-> "KeyError", key |-> FirstMissing(user_profile, 1)]
    ELSE PlanFromBmr(user_profile,
                     calculate_bmr(user_profile.age, user_profile.gender,
                                   user_profile.weight_kg, user_profile.height_cm))

\* ------------------------------------------------------------------------
\* medical_constraints.py
\* ------------------------------------------------------------------------
MEDICAL_CONSTRAINTS ==
    [diabetes |->
        [max_carbs_per_serving |-> 45,
         max_sugar_per_serving |-> 15,
         avoid_ingredients |-> <<<<"w", "h", "i", "t", "e", " ", "r", "i", "c", "e">>, <<"w", "h", "i", "t", "e", " ", "b", "r", "e", "a", "d">>, <<"s", "u", "g", "a", "r">>, <<"h", "o", "n", "e", "y">>, <<"j", "a", "g", "g", "e", "r", "y">>>>,
         preferred_ingredients |-> <<<<"w", "h", "o", "l", "e", " ", "g", "r", "a", "i", "n">>, <<"q", "u", "i", "n", "o", "a">>, <<"b", "r", "o", "w", "n", " ", "r", "i", "c", "e">>, <<"o", "a", "t", "s">>, <<"b", "a", "r", "l", "e", "y">>>>],
     pre_diabetes |->
        [max_carbs_per_serving |-> 50,
         avoid_ingredients |-> <<<<"w", "h", "i", "t", "e", " ", "r", "i", "c", "e">>, <<"s", "u", "g", "a", "r">>, <<"r", "e", "f", "i", "n", "e", "d", " ", "f", "l", "o", "u", "r">>>>,
         preferred_ingredients |-> <<<<"w", "h", "o", "l", "e", " ", "g", "r", "a", "i", "n">>, <<"o", "a", "t", "s">>, <<"v", "e", "g", "e", "t", "a", "b", "l", "e", "s">>>>],
     hypertension |->
        [max_sodium_per_serving |-> 600,
         avoid_ingredients |-> <<<<"s", "a", "l", "t">>, <<"s", "o", "y", " ", "s", "a", "u", "c", "e">>, <<"p", "i", "c", "k", "l", "e", "s">>, <<"p", "r", "o", "c", "e", "s", "s", "e", "d", " ", "m", "e", "a", "t">>, <<"p", "a", "p", "a", "d">>>>,
         preferred_ingredients |-> <<<<"l", "o", "w", " ", "s", "o", "d", "i", "u", "m">>, <<"f", "r", "e", "s", "h", " ", "h", "e", "r", "b", "s">>, <<"l", "e", "m", "o", "n">>, <<"g", "a", "r", "l", "i", "c">>>>],
     heart_disease |->
        [max_saturated_fat_per_serving |-> 7,
         max_cholesterol_per_serving |-> 200,
         max_sodium_per_serving |-> 600,
         avoid_ingredients |-> <<<<"b", "u", "t", "t", "e", "r">>, <<"g", "h", "e", "e">>, <<"c", "r", "e", "a", "m">>, <<"f", "u", "l", "l", "-", "f", "a", "t", " ", "c", "h", "e", "e", "s", "e">>, <<"r", "e", "d", " ", "m", "e", "a", "t">>, <<"c", "o", "c", "o", "n", "u", "t", " ", "o", "i", "l">>>>,
         preferred_ingredients |-> <<<<"o", "l", "i", "v", "e", " ", "o", "i", "l">>, <<"f", "i", "s", "h">>, <<"l", "e", "a", "n", " ", "c", "h", "i", "c", "k", "e", "n">>, <<"n", "u", "t", "s">>, <<"a", "v", "o", "c", "a", "d", "o">>, <<"o", "a", "t", "s">>>>],
     high_cholesterol |->
        [max_cholesterol_per_serving |-> 200,
         max_saturated_fat_per_serving |-> 7,
         avoid_ingredients |-> <<<<"e", "g", "g", " ", "y", "o", "l", "k">>, <<"s", "h", "r", "i", "m", "p">>, <<"b", "u", "t", "t", "e", "r">>, <<"f", "u", "l", "l", "-", "f", "a", "t", " ", "d", "a", "i", "r", "y">>, <<"o", "r", "g", "a", "n", " ", "m", "e", "a", "t">>>>,
         preferred_ingredients |-> <<<<"o", "a", "t", "s">>, <<"b", "a", "r", "l", "e", "y">>, <<"b", "e", "a", "n", "s">>, <<"a", "p", "p", "l", "e", "s">>, <<"f", "i", "s", "h">>, <<"a", "l", "m", "o", "n", "d", "s">>>>],
     kidney_disease |->
        [max_protein_per_serving |-> 20,
         max_sodium_per_serving |-> 500,
         max_potassium_per_serving |-> 200,
         avoid_ingredients |-> <<<<"b", "e", "a", "n", "s">>, <<"l", "e", "n", "t", "i", "l", "s">>, <<"n", "u", "t", "s">>, <<"c", "h", "e", "e", "s", "e">>, <<"t", "o", "m", "a", "t", "o", "e", "s">>, <<"b", "a", "n", "a", "n", "a", "s">>, <<"p", "o", "t", "a", "t", "o", "e", "s">>>>,
         preferred_ingredients |-> <<<<"r", "i", "c", "e">>, <<"c", "a", "b", "b", "a", "g", "e">>, <<"c", "u", "c", "u", "m", "b", "e", "r">>, <<"a", "p", "p", "l", "e">>, <<"w", "h", "i", "t", "e", " ", "b", "r", "e", "a", "d">>>>],
     celiac_disease |->
        [required_diet |-> <<"G", "l", "u", "t", "e", "n", " ", "F", "r", "e", "e">>,
         avoid_ingredients |-> <<<<"w", "h", "e", "a", "t">>, <<"b", "a", "r", "l", "e", "y">>, <<"r", "y", "e">>, <<"o", "a", "t", "s">>, <<"b", "r", "e", "a", "d">>, <<"p", "a", "s", "t", "a">>, <<"a", "t", "t", "a">>, <<"m", "a", "i", "d", "a">>>>],
     lactose_intolerance |->
        [avoid_ingredients |-> <<<<"m", "i", "l", "k">>, <<"c", "h", "e", "e", "s", "e">>, <<"y", "o", "g", "u", "r", "t">>, <<"b", "u", "t", "t", "e", "r">>, <<"c", "r", "e", "a", "m">>, <<"p", "a", "n", "e", "e", "r">>, <<"g", "h", "e", "e">>, <<"c", "u", "r", "d">>>>]]

\* ------------------------------------------------------------------------
\* recipe_recommender.py
\* A DataFrame is a sequence of rows; a row is a record of its columns plus
\* idx, its index label, which filtering and sorting carry along.
\* ------------------------------------------------------------------------
DIET_MAPPING ==
    << <<<<"v", "e", "g", "e", "t", "a", "r", "i", "a", "n">>, <<<<"V", "e", "g", "e", "t", "a", "r", "i", "a", "n">>, <<"H", "i", "g", "h", " ", "P", "r", "o", "t", "e", "i", "n", " ", "V", "e", "g", "e", "t", "a", "r", "i", "a", "n">>>> >>,
       <<<<"n", "o", "n", "-", "v", "e", "g", "e", "t", "a", "r", "i", "a", "n">>, <<<<"N", "o", "n", " ", "V", "e", "g", "e", "t", "e", "r", "i", "a", "n">>, <<"H", "i", "g", "h", " ", "P", "r", "o", "t", "e", "i", "n", " ", "N", "o", "n", " ", "V", "e", "g", "e", "t", "a", "r", "i", "a", "n">>>> >>,
       <<<<"n", "o", "n", " ", "v", "e", "g", "e", "t", "a", "r", "i", "a", "n">>, <<<<"N", "o", "n", " ", "V", "e", "g", "e", "t", "e", "r", "i", "a", "n">>, <<"H", "i", "g", "h", " ", "P", "r", "o", "t", "e", "i", "n", " ", "N", "o", "n", " ", "V", "e", "g", "e", "t", "a", "r", "i", "a", "n">>>> >>,
       <<<<"v", "e", "g", "a", "n">>, <<<<"V", "e", "g", "a", "n">>>> >>,
       <<<<"e", "g", "g", "e", "t", "a", "r", "i", "a", "n">>, <<<<"E", "g", "g", "e", "t", "a", "r", "i", "a", "n">>>> >>,
       <<<<"d", "i", "a", "b", "e", "t", "i", "c">>, <<<<"D", "i", "a", "b", "e", "t", "i", "c", " ", "F", "r", "i", "e", "n", "d", "l", "y">>>> >>,
       <<<<"d", "i", "a", "b", "e", "t", "i", "c", " ", "f", "r", "i", "e", "n", "d", "l", "y">>, <<<<"D", "i", "a", "b", "e", "t", "i", "c", " ", "F", "r", "i", "e", "n", "d", "l", "y">>>> >>,
       <<<<"g", "l", "u", "t", "e", "n", " ", "f", "r", "e", "e">>, <<<<"G", "l", "u", "t", "e", "n", " ", "F", "r", "e", "e">>>> >>,
       <<<<"s", "u", "g", "a", "r", " ", "f", "r", "e", "e">>, <<<<"S", "u", "g", "a", "r", " ", "F", "r", "e", "e", " ", "D", "i", "e", "t">>>> >>,
       <<<<"n", "o", " ", "o", "n", "i", "o", "n", " ", "n", "o", " ", "g", "a", "r", "l", "i", "c">>, <<<<"N", "o", " ", "O", "n", "i", "o", "n", " ", "N", "o", " ", "G", "a", "r", "l", "i", "c", " ", "(", "S", "a", "t", "t", "v", "i", "c", ")">>>> >> >>

\* DIET_MAPPING.get(key): the mapped list, or <<>> for None
DietValues(key) ==
    IF \E i \in DOMAIN DIET_MAPPING : DIET_MAPPING[i][1] = key
    THEN DIET_MAPPING[CHOOSE i \in DOMAIN DIET_MAPPING : DIET_MAPPING[i][1] = key][2]
    ELSE <<>>

non_food_keywords ==
    <<"m", "a", "s", "a", "l", "a", "|", "s", "p", "i", "c", "e", " ", "m", "i", "x", "|", "p", "a", "s", "t", "e", "|", "c", "h", "u", "t", "n", "e", "y", "|", "p", "i", "c", "k", "l", "e", "|", "p", "o", "w", "d", "e", "r", "|", "s", "e", "a", "s", "o", "n", "i", "n", "g", "|", "s", "a", "u", "c", "e", " ", "m", "i", "x", "|", "c", "u", "r", "r", "y", " ", "p", "o", "w", "d", "e", "r">>

\* MedicalAwareRecipeRecommender._preprocess_recipes
preprocess_recipes(recipes_df) ==
    SelectSeq(recipes_df, LAMBDA r : ~StrContains(r.RecipeName, non_food_keywords))

\* a faulty variant of the loop body: the required diet is not applied
ApplyConstraints_AnyDiet(df, c) ==
    LET f1 == IF "max_sodium_per_serving" \in DOMAIN c
              THEN SelectSeq(df, LAMBDA r : r.sodium_per_serving <= c.max_sodium_per_serving)
              ELSE df
        f2 == IF "max_carbs_per_serving" \in DOMAIN c
              THEN SelectSeq(f1, LAMBDA r : r.carbohydrate_per_serving <= c.max_carbs_per_serving)
              ELSE f1
        f3 == IF "max_protein_per_serving" \in DOMAIN c
              THEN SelectSeq(f2, LAMBDA r : r.protein_per_serving <= c.max_protein_per_serving)
              ELSE f2
        f4 == IF "max_saturated_fat_per_serving" \in DOMAIN c
              THEN SelectSeq(f3, LAMBDA r : r.fat_per_serving <= c.max_saturated_fat_per_serving * 2)
              ELSE f3
    IN  IF "avoid_ingredients" \in DOMAIN c
        THEN SelectSeq(f4, LAMBDA r : \A i \in DOMAIN c.avoid_ingredients :
                                          ~StrContains(r.Ingredients, c.avoid_ingredients[i]))
        ELSE f4

\* one pass of the loop body of filter_by_medical_constraints
ApplyConstraints(df, c) ==
    LET f1 == IF "max_sodium_per_serving" \in DOMAIN c
              THEN SelectSeq(df, LAMBDA r : r.sodium_per_serving <= c.max_sodium_per_serving)
              ELSE df
        f2 == IF "max_carbs_per_serving" \in DOMAIN c
              THEN SelectSeq(f1, LAMBDA r : r.carbohydrate_per_serving <= c.max_carbs_per_serving)
              ELSE f1
        f3 == IF "max_protein_per_serving" \in DOMAIN c
              THEN SelectSeq(f2, LAMBDA r : r.protein_per_serving <= c.max_protein_per_serving)
              ELSE f2
        f4 == IF "max_saturated_fat_per_serving" \in DOMAIN c
              THEN SelectSeq(f3, LAMBDA r : r.fat_per_serving <= c.max_saturated_fat_per_serving * 2)
              ELSE f3
        f5 == IF "required_diet" \in DOMAIN c
              THEN SelectSeq(f4, LAMBDA r : r.Diet = c.required_diet)
              ELSE f4
    IN  IF "avoid_ingredients" \in DOMAIN c
        THEN SelectSeq(f5, LAMBDA r : \A i \in DOMAIN c.avoid_ingredients :
                                          ~StrContains(r.Ingredients, c.avoid_ingredients[i]))
        ELSE f5

RECURSIVE FilterConditions(_, _, _)
FilterConditions(df, medical_conditions, i) ==
    IF i > Len(medical_conditions) THEN df
    ELSE IF medical_conditions[i] \notin DOMAIN MEDICAL_CONSTRAINTS
    THEN FilterConditions(df, medical_conditions, i + 1)
    ELSE FilterConditions(ApplyConstraints(df, MEDICAL_CONSTRAINTS[medical_conditions[i]]),
                          medical_conditions, i + 1)

\* a faulty variant: only the last condition of the list is applied
filter_by_medical_constraints_LastOnly(recipes_df, medical_conditions) ==
    IF medical_conditions = <<>> THEN recipes_df
    ELSE FilterConditions(recipes_df, medical_conditions, Len(medical_conditions))

\* MedicalAwareRecipeRecommender.filter_by_medical_constraints
filter_by_medical_constraints(recipes_df, medical_conditions) ==
    FilterConditions(recipes_df, medical_conditions, 1)

\* the mask of one excluded term: neither the name nor the ingredients contain it
ExcludesTerm(r, term) ==
    ~(StrContains(r.RecipeName, term) \/ StrContains(r.Ingredients, term))

\* the allergen mask: as ExcludesTerm, and the ingredientsname column when the table has one
ExcludesAllergen(r, allergen) ==
    /\ ExcludesTerm(r, allergen)
    /\ "ingredientsname" \in DOMAIN r => ~StrContains(r.ingredientsname, allergen)

\* MedicalAwareRecipeRecommender.filter_by_preferences; None and [] are both <<>>
filter_by_preferences(recipes_df, preferred_cuisines, disliked_ingredients, allergies) ==
    LET f1 == IF Len(preferred_cuisines) > 0
              THEN SelectSeq(recipes_df, LAMBDA r : InList(r.Cuisine, preferred_cuisines))
              ELSE recipes_df
        f2 == SelectSeq(f1, LAMBDA r : \A i \in DOMAIN disliked_ingredients :
                                           ExcludesTerm(r, disliked_ingredients[i]))
    IN  SelectSeq(f2, LAMBDA r : \A i \in DOMAIN allergies : ExcludesAllergen(r, allergies[i]))

\* one axis of calculate_match_score: |recipe - target| / max(target, 1), capped at 2.0
AxisDiff(recipe_value, target_value) ==
    FMin(FDiv(FAbs(FSub(FromInt(recipe_value), FromInt(target_value))),
              FromInt(MaxOf(target_value, 1))),
         FromInt(2))

\* the weighted sum of the four differences
weighted_diff(cal_diff, protein_diff, carbs_diff, fat_diff) ==
    FAdd(FAdd(FAdd(FMul(cal_diff, Dec(30, 100)), FMul(protein_diff, Dec(40, 100))),
              FMul(carbs_diff, Dec(20, 100))),
         FMul(fat_diff, Dec(10, 100)))

\* MedicalAwareRecipeRecommender.calculate_match_score
calculate_match_score(recipe, target) ==
    FMax(FZero,
         FSub(FromInt(100),
              FMul(weighted_diff(AxisDiff(recipe.energy_per_serving, target.calories),
                                 AxisDiff(recipe.protein_per_serving, target.protein_g),
                                 AxisDiff(recipe.carbohydrate_per_serving, target.carbs_g),
                                 AxisDiff(recipe.fat_per_serving, target.fat_g)),
                   FromInt(50))))

\* the inner loop of calculate_preference_bonus over one condition's preferred list
RECURSIVE BonusPreferred(_, _, _, _)
BonusPreferred(bonus, preferred, ingredients_lower, j) ==
    IF j > Len(preferred) THEN bonus
    ELSE BonusPreferred(IF Contains(ingredients_lower, preferred[j])
                        THEN FAdd(bonus, Dec(5, 100)) ELSE bonus,
                        preferred, ingredients_lower, j + 1)

\* the exception recipe['Ingredients'].lower() raises when the cell is missing: the cell
\* is then a float NaN, which has no lower()
AttributeError == [status |-> "AttributeError"]

\* str(e) of that exception
AttributeErrorText == <<"'float' object has no attribute 'lower'">>

\* the loop of calculate_preference_bonus over the conditions; the first known condition
\* with preferred_ingredients raises when the recipe has no ingredients text
RECURSIVE BonusConditions(_, _, _, _)
BonusConditions(bonus, recipe, medical_conditions, i) ==
    IF i > Len(medical_conditions) THEN bonus
    ELSE IF medical_conditions[i] \notin DOMAIN MEDICAL_CONSTRAINTS
    THEN BonusConditions(bonus, recipe, medical_conditions, i + 1)
    ELSE LET c == MEDICAL_CONSTRAINTS[medical_conditions[i]]
         IN  IF "preferred_ingredients" \in DOMAIN c /\ recipe.Ingredients = NA
             THEN AttributeError
             ELSE BonusConditions(IF "preferred_ingredients" \in DOMAIN c
                                  THEN BonusPreferred(bonus, c.preferred_ingredients,
                                                      Lower(recipe.Ingredients), 1)
                                  ELSE bonus,
                                  recipe, medical_conditions, i + 1)

\* return min(bonus, 0.20), when the loop has not raised
Limited(bonus) == IF bonus = AttributeError THEN AttributeError ELSE FMin(bonus, Dec(20, 100))

\* a faulty variant: the bonus is returned as accumulated, without the limit
calculate_preference_bonus_Unlimited(recipe, medical_conditions) ==
    BonusConditions(FZero, recipe, medical_conditions, 1)

\* MedicalAwareRecipeRecommender.calculate_preference_bonus
calculate_preference_bonus(recipe, medical_conditions) ==
    Limited(BonusConditions(FZero, recipe, medical_conditions, 1))

\* a faulty variant: the upper end of each band belongs to the next band
GapAdvice_StrictBounds(gap) ==
    IF FLt(gap, FromInt(2))
    THEN [gap |-> gap, status |-> "excellent", suggestion |-> "None"]
    ELSE IF FLt(gap, FromInt(5))
    THEN [gap |-> gap, status |-> "good", suggestion |-> "Add 1 boiled egg (+6g protein)"]
    ELSE IF FLt(gap, FromInt(10))
    THEN [gap |-> gap, status |-> "moderate",
          suggestion |-> "Add 50g paneer (+9g protein) or 1 cup Greek yogurt (+15g)"]
    ELSE [gap |-> gap, status |-> "significant",
          suggestion |-> "Add 2 eggs + 50g paneer (+15g protein) or protein shake (+20g)"]

\* the status and suggestion analyze_protein_gap gives for a gap
GapAdvice(gap) ==
    IF FLe(gap, FromInt(2))
    THEN [gap |-> gap, status |-> "excellent", suggestion |-> "None"]
    ELSE IF FLe(gap, FromInt(5))
    THEN [gap |-> gap, status |-> "good", suggestion |-> "Add 1 boiled egg (+6g protein)"]
    ELSE IF FLe(gap, FromInt(10))
    THEN [gap |-> gap, status |-> "moderate",
          suggestion |-> "Add 50g paneer (+9g protein) or 1 cup Greek yogurt (+15g)"]
    ELSE [gap |-> gap, status |-> "significant",
          suggestion |-> "Add 2 eggs + 50g paneer (+15g protein) or protein shake (+20g)"]

\* MedicalAwareRecipeRecommender.analyze_protein_gap
analyze_protein_gap(recipe, target_protein) ==
    GapAdvice(FSub(FromInt(target_protein), FromInt(recipe.protein_per_serving)))

\* Step 1 of recommend: course, diet and time.  The relaxed retry repeats it
\* without the substring fallback for a diet that DIET_MAPPING does not know.
CourseMatches(r, course) ==
    IF Contains(Lower(course), <<"s", "n", "a", "c", "k">>)
    THEN StrContains(r.Course, <<"S", "n", "a", "c", "k", "|", "A", "p", "p", "e", "t", "i", "z", "e", "r", "|", "S", "t", "a", "r", "t", "e", "r", "|", "S", "i", "d", "e", "|", "D", "e", "s", "s", "e", "r", "t">>)
    ELSE StrContains(r.Course, course)

DietInput(user_targets) ==
    Strip(Replace(Lower(Get(user_targets, "diet", <<"V", "e", "g", "e", "t", "a", "r", "i", "a", "n">>)), "-", " "))

MaxTime(user_targets) ==
    Get(user_targets, "max_time", Get(user_targets, "max_time_mins", 60))

BasicFilter(df, user_targets, retry) ==
    LET course      == Get(user_targets, "course", <<"B", "r", "e", "a", "k", "f", "a", "s", "t">>)
        diet_values == DietValues(DietInput(user_targets))
        notna       == SelectSeq(df, LAMBDA r : NotNA(r.Course) /\ NotNA(r.Diet))
        by_course   == SelectSeq(notna, LAMBDA r : CourseMatches(r, course))
        by_diet     == IF Len(diet_values) > 0
                       THEN SelectSeq(by_course, LAMBDA r : InList(r.Diet, diet_values))
                       ELSE IF retry THEN by_course
                       ELSE SelectSeq(by_course, LAMBDA r :
                                StrContains(r.Diet, Get(user_targets, "diet", <<"V", "e", "g", "e", "t", "a", "r", "i", "a", "n">>)))
    IN  SelectSeq(by_diet, LAMBDA r : r.TotalTimeInMins <= MaxTime(user_targets))

\* Steps 1 and 2 of recommend, first pass
FirstPass(df, user_targets, preferred_cuisines, disliked_ingredients, allergies) ==
    filter_by_preferences(BasicFilter(df, user_targets, FALSE),
                          preferred_cuisines, disliked_ingredients, allergies)

\* a faulty variant of the retry: the allergies go with the cuisines
RetryArguments_NoAllergies(preferred_cuisines, disliked_ingredients, allergies) ==
    [preferred_cuisines   |-> <<>>,
     disliked_ingredients |-> disliked_ingredients,
     allergies            |-> <<>>]

\* a faulty variant of the retry: the dislikes go and the cuisines stay
RetryArguments_NoDislikes(preferred_cuisines, disliked_ingredients, allergies) ==
    [preferred_cuisines   |-> preferred_cuisines,
     disliked_ingredients |-> <<>>,
     allergies            |-> allergies]

\* the arguments of the retry's filter_by_preferences call: the cuisines go (None), the rest stays
RetryArguments(preferred_cuisines, disliked_ingredients, allergies) ==
    [preferred_cuisines   |-> <<>>,
     disliked_ingredients |-> disliked_ingredients,
     allergies            |-> allergies]

\* the retry of recommend: Step 1 again and the preferences with the retry's arguments
RelaxedPass(df, user_targets, preferred_cuisines, disliked_ingredients, allergies) ==
    LET a == RetryArguments(preferred_cuisines, disliked_ingredients, allergies)
    IN  filter_by_preferences(BasicFilter(df, user_targets, TRUE),
                              a.preferred_cuisines, a.disliked_ingredients, a.allergies)

\* a faulty variant of Step 3: when the medical filter leaves nothing, the unfiltered candidates are kept
AfterMedical_Relaxed(candidates, medical_conditions) ==
    IF Len(medical_conditions) > 0
       /\ Len(filter_by_medical_constraints(candidates, medical_conditions)) > 0
    THEN filter_by_medical_constraints(candidates, medical_conditions)
    ELSE candidates

\* Step 3 of recommend
AfterMedical(candidates, medical_conditions) ==
    IF Len(medical_conditions) > 0
    THEN filter_by_medical_constraints(candidates, medical_conditions)
    ELSE candidates

\* a faulty variant of Step 4: the score with its bonus is not capped
MatchScore_Uncapped(score, recipe, medical_conditions) ==
    IF Len(medical_conditions) > 0
    THEN FMul(score, FAdd(FromInt(1), calculate_preference_bonus(recipe, medical_conditions)))
    ELSE score

\* score * (1 + bonus), capped, when calculate_preference_bonus has not raised
WithBonus(score, bonus) ==
    IF bonus = AttributeError THEN AttributeError
    ELSE FMin(FMul(score, FAdd(FromInt(1), bonus)), FromInt(100))

\* Step 4 of recommend for one row: the bonus and the cap on the score of calculate_match_score
MatchScore(score, recipe, medical_conditions) ==
    IF Len(medical_conditions) > 0
    THEN WithBonus(score, calculate_preference_bonus(recipe, medical_conditions))
    ELSE FMin(score, FromInt(100))

\* the row of the returned table: the returned columns of the recipe and the three of Step 4
ReturnedRow(recipe, match_score, gap_analysis) ==
    [idx                      |-> recipe.idx,
     RecipeName               |-> recipe.RecipeName,
     Cuisine                  |-> recipe.Cuisine,
     Diet                     |-> recipe.Diet,
     TotalTimeInMins          |-> recipe.TotalTimeInMins,
     energy_per_serving       |-> recipe.energy_per_serving,
     protein_per_serving      |-> recipe.protein_per_serving,
     carbohydrate_per_serving |-> recipe.carbohydrate_per_serving,
     fat_per_serving          |-> recipe.fat_per_serving,
     sodium_per_serving       |-> recipe.sodium_per_serving,
     match_score              |-> match_score,
     protein_gap              |-> gap_analysis.gap,
     protein_suggestion       |-> gap_analysis.suggestion]

ScoredRow(recipe, user_targets, medical_conditions) ==
    ReturnedRow(recipe,
                MatchScore(calculate_match_score(recipe, user_targets), recipe, medical_conditions),
                analyze_protein_gap(recipe, user_targets.protein_g))

\* the longest table that both sorts numpy has behind kind='quicksort' leave with equal keys
\* in input order: the scalar quicksort (insertion sort for up to 17 elements) and the SIMD
\* argsort of the builds for AVX-512 and AVX2 (a sorting network)
STABLE_ROWS == 3

\* a row put into a table that is in descending order of key, behind the rows whose key
\* is not lower
RECURSIVE InsertDesc(_, _, _)
InsertDesc(sorted, r, key) ==
    IF sorted = <<>> THEN <<r>>
    ELSE IF FGe(Head(sorted)[key], r[key]) THEN <<Head(sorted)>> \o InsertDesc(Tail(sorted), r, key)
    ELSE <<r>> \o sorted

\* the first n rows of a table in descending order of key, equal keys in the order of the table
RECURSIVE StableDesc(_, _, _)
StableDesc(df, key, n) ==
    IF n = 0 THEN <<>> ELSE InsertDesc(StableDesc(df, key, n - 1), df[n], key)

\* the number of rows at the head of a table that have the key of its first row
RECURSIVE RunLength(_, _, _)
RunLength(sorted, key, n) ==
    IF n < Len(sorted) /\ FGe(sorted[n + 1][key], sorted[1][key]) THEN RunLength(sorted, key, n + 1)
    ELSE n

\* every order of the rows of a table
RECURSIVE Orders(_)
Orders(df) ==
    IF df = <<>> THEN {<<>>}
    ELSE UNION {{<<df[i]>> \o rest :
                    rest \in Orders(SubSeq(df, 1, i - 1) \o SubSeq(df, i + 1, Len(df)))} :
                   i \in DOMAIN df}

\* a table in descending order of key with each run of equal keys in every order
RECURSIVE TieOrders(_, _)
TieOrders(sorted, key) ==
    IF sorted = <<>> THEN {<<>>}
    ELSE {run \o rest :
             run \in Orders(SubSeq(sorted, 1, RunLength(sorted, key, 1))),
             rest \in TieOrders(SubSeq(sorted, RunLength(sorted, key, 1) + 1, Len(sorted)), key)}

\* DataFrame.sort_values(column, ascending=False) with the default quicksort: descending in
\* key.  pandas sorts the reversed column ascending and reverses the result.  The order
\* among equal keys is not promised and depends on the numpy build: a table of up to
\* STABLE_ROWS rows keeps them in input order on every build, and for a longer table every
\* descending arrangement is a possible outcome
SortDescOutcomes(df, key) ==
    IF Len(df) <= STABLE_ROWS THEN {StableDesc(df, key, Len(df))}
    ELSE TieOrders(StableDesc(df, key, Len(df)), key)

\* DataFrame.head(n)
Head_n(df, n) == SubSeq(df, 1, MinOf(n, Len(df)))

\* recommend raised in Step 4: in place of a table, the exception
RecommendRaised == <<AttributeError>>

\* the loop of Step 4 raises: conditions are given and a row without ingredients text
\* reaches calculate_preference_bonus, which raises for it
Step4Raises(filtered, medical_conditions) ==
    /\ Len(medical_conditions) > 0
    /\ \E i \in DOMAIN filtered :
           /\ filtered[i].Ingredients = NA
           /\ calculate_preference_bonus(filtered[i], medical_conditions) = AttributeError

\* Steps 4 and 5 of recommend: the tables the ranking can produce from the filtered rows
Ranked(filtered, user_targets, medical_conditions, top_n) ==
    IF Step4Raises(filtered, medical_conditions) THEN {RecommendRaised}
    ELSE {Head_n(sorted, top_n) :
             sorted \in SortDescOutcomes([i \in DOMAIN filtered |->
                                              ScoredRow(filtered[i], user_targets, medical_conditions)],
                                         "match_score")}

\* Steps 4 and 5 and the return of recommend, given the candidates before and after Step 3
RunFromFiltered(calls, candidates, filtered, user_targets, medical_conditions, top_n) ==
    [tables           |-> IF Len(filtered) = 0 THEN {<<>>}
                          ELSE Ranked(filtered, user_targets, medical_conditions, top_n),
     preference_calls |-> calls,
     cause            |-> IF Len(candidates) = 0 THEN "preference"
                          ELSE IF Len(filtered) = 0 THEN "medical"
                          ELSE "none"]

\* Step 3 onward, given the candidates the preference passes left
RunFromCandidates(calls, candidates, user_targets, medical_conditions, top_n) ==
    RunFromFiltered(calls, candidates, AfterMedical(candidates, medical_conditions),
                    user_targets, medical_conditions, top_n)

\* the arguments of a filter_by_preferences call
PreferenceCall(preferred_cuisines, disliked_ingredients, allergies) ==
    [preferred_cuisines   |-> preferred_cuisines,
     disliked_ingredients |-> disliked_ingredients,
     allergies            |-> allergies]

\* the retry when the first pass left nothing, and the rest of recommend
RunFromFirstPass(first, df, user_targets, medical_conditions, preferred_cuisines, disliked_ingredients, allergies, top_n) ==
    RunFromCandidates(
        IF Len(first) = 0
        THEN <<PreferenceCall(preferred_cuisines, disliked_ingredients, allergies),
               RetryArguments(preferred_cuisines, disliked_ingredients, allergies)>>
        ELSE <<PreferenceCall(preferred_cuisines, disliked_ingredients, allergies)>>,
        IF Len(first) = 0
        THEN RelaxedPass(df, user_targets, preferred_cuisines, disliked_ingredients, allergies)
        ELSE first,
        user_targets, medical_conditions, top_n)

\* one run of MedicalAwareRecipeRecommender.recommend: the tables it can return (pd.DataFrame()
\* is <<>>), the filter_by_preferences calls it made, by their arguments and in order, and what
\* emptied the candidates: the preferences (after the retry), the medical filter, or nothing
RecommendRun(df, user_targets, medical_conditions, preferred_cuisines, disliked_ingredients, allergies, top_n) ==
    RunFromFirstPass(FirstPass(df, user_targets, preferred_cuisines, disliked_ingredients, allergies),
                     df, user_targets, medical_conditions, preferred_cuisines,
                     disliked_ingredients, allergies, top_n)

\* MedicalAwareRecipeRecommender.recommend: the tables it can return
recommend(df, user_targets, medical_conditions, preferred_cuisines, disliked_ingredients, allergies, top_n) ==
    RecommendRun(df, user_targets, medical_conditions, preferred_cuisines,
                 disliked_ingredients, allergies, top_n).tables

\* ------------------------------------------------------------------------
\* Names and objects.  The variables of a call name objects (DataFrames, the constraint
\* table, the model); a statement builds a new object, gives an object one more name, or
\* writes a column into the object a name refers to.  Numbers, strings and the Python
\* lists local to a call (scores, protein_gaps, suggestions) are left out.
\* ------------------------------------------------------------------------
\* var = <an expression that builds an object>: .copy(), df[mask], sort_values(...),
\* head(n), df[[columns]], pd.DataFrame()
New(var, line) == [op |-> "new", var |-> var, line |-> line]

\* var = src, src passed as the argument var, or src returned into var
Bind(var, src, line) == [op |-> "bind", var |-> var, src |-> src, line |-> line]

\* var[col] = values
SetItem(var, col, line) == [op |-> "setitem", var |-> var, col |-> col, line |-> line]

\* an object the process has held since it started, by the name the code gives it
Shared(name) == [made |-> 0, name |-> name]

SharedNames == {"self.recipes", "MEDICAL_CONSTRAINTS", "self.tier3_model"}

\* the names at the start of a call, and nothing written yet
Start == [env |-> [n \in SharedNames |-> Shared(n)], written |-> {}]

\* the names with var naming the object
Named(env, var, object) ==
    [v \in DOMAIN env \cup {var} |-> IF v = var THEN object ELSE env[v]]

\* one statement executed
Exec(h, s) ==
    IF s.op = "new" THEN [h EXCEPT !.env = Named(h.env, s.var, [made |-> s.line, name |-> s.var])]
    ELSE IF s.op = "bind" THEN [h EXCEPT !.env = Named(h.env, s.var, h.env[s.src])]
    ELSE [h EXCEPT !.written = h.written \cup {[object |-> h.env[s.var], col |-> s.col]}]

\* the statements of a call executed in order
RECURSIVE Execute(_, _)
Execute(h, statements) ==
    IF statements = <<>> THEN h ELSE Execute(Exec(h, Head(statements)), Tail(statements))

\* the same statement n times over
Times(n, statement) == [i \in 1..n |-> statement]

\* filter_by_preferences called at a line of recommend with the arguments a
PreferencesStatements(line, a) ==
    <<Bind("filter_by_preferences.recipes_df", "recommend.filtered", line),
      New("filter_by_preferences.filtered", 141)>>
    \o Times(IF Len(a.preferred_cuisines) > 0 THEN 1 ELSE 0, New("filter_by_preferences.filtered", 146))
    \o Times(Len(a.disliked_ingredients), New("filter_by_preferences.filtered", 158))
    \o Times(Len(a.allergies), New("filter_by_preferences.filtered", 173))
    \o <<Bind("recommend.filtered", "filter_by_preferences.filtered", line)>>

\* the body of the loop of filter_by_medical_constraints for one listed condition
ConstraintStatements(condition) ==
    IF condition \notin DOMAIN MEDICAL_CONSTRAINTS THEN <<>>
    ELSE <<Bind("filter_by_medical_constraints.constraints", "MEDICAL_CONSTRAINTS", 90)>>
         \o Times(IF "max_sodium_per_serving" \in DOMAIN MEDICAL_CONSTRAINTS[condition] THEN 1 ELSE 0,
                  New("filter_by_medical_constraints.filtered", 95))
         \o Times(IF "max_carbs_per_serving" \in DOMAIN MEDICAL_CONSTRAINTS[condition] THEN 1 ELSE 0,
                  New("filter_by_medical_constraints.filtered", 100))
         \o Times(IF "max_protein_per_serving" \in DOMAIN MEDICAL_CONSTRAINTS[condition] THEN 1 ELSE 0,
                  New("filter_by_medical_constraints.filtered", 105))
         \o Times(IF "max_saturated_fat_per_serving" \in DOMAIN MEDICAL_CONSTRAINTS[condition] THEN 1 ELSE 0,
                  New("filter_by_medical_constraints.filtered", 111))
         \o Times(IF "required_diet" \in DOMAIN MEDICAL_CONSTRAINTS[condition] THEN 1 ELSE 0,
                  New("filter_by_medical_constraints.filtered", 116))
         \o (IF "avoid_ingredients" \in DOMAIN MEDICAL_CONSTRAINTS[condition]
             THEN <<Bind("filter_by_medical_constraints.avoid_list",
                         "filter_by_medical_constraints.constraints", 120)>>
                  \o Times(Len(MEDICAL_CONSTRAINTS[condition].avoid_ingredients),
                           New("filter_by_medical_constraints.filtered", 122))
             ELSE <<>>)

RECURSIVE LoopStatements(_, _)
LoopStatements(medical_conditions, i) ==
    IF i > Len(medical_conditions) THEN <<>>
    ELSE ConstraintStatements(medical_conditions[i]) \o LoopStatements(medical_conditions, i + 1)

\* filter_by_medical_constraints called at line 392 of recommend
MedicalStatements(medical_conditions) ==
    <<Bind("filter_by_medical_constraints.recipes_df", "recommend.filtered", 392),
      New("filter_by_medical_constraints.filtered", 84)>>
    \o LoopStatements(medical_conditions, 1)
    \o <<Bind("recommend.filtered", "filter_by_medical_constraints.filtered", 392)>>

\* Step 1 of recommend: the copy of self.recipes, a selection for each of the three
\* required columns, and the course, diet and time selections
BasicStatements(user_targets) ==
    <<New("recommend.filtered", 307)>>
    \o Times(3, New("recommend.filtered", 312))
    \o <<New("recommend.filtered", 333),
         New("recommend.filtered", IF Len(DietValues(DietInput(user_targets))) > 0 THEN 341 ELSE 344),
         New("recommend.filtered", 351)>>

\* Step 1 again in the retry
RetryStatements(user_targets) ==
    <<New("recommend.filtered", 365)>>
    \o Times(3, New("recommend.filtered", 368))
    \o <<New("recommend.filtered", 375)>>
    \o Times(IF Len(DietValues(DietInput(user_targets))) > 0 THEN 1 ELSE 0, New("recommend.filtered", 378))
    \o <<New("recommend.filtered", 380)>>

\* calculate_preference_bonus in the loop of Step 4, the same for every row and each
\* statement once: line 239 for a listed condition of the table, line 242 for one that
\* has preferred_ingredients
BonusStatements(medical_conditions) ==
    Times(IF \E i \in DOMAIN medical_conditions : medical_conditions[i] \in DOMAIN MEDICAL_CONSTRAINTS
          THEN 1 ELSE 0,
          Bind("calculate_preference_bonus.constraints", "MEDICAL_CONSTRAINTS", 239))
    \o Times(IF \E i \in DOMAIN medical_conditions :
                    /\ medical_conditions[i] \in DOMAIN MEDICAL_CONSTRAINTS
                    /\ "preferred_ingredients" \in DOMAIN MEDICAL_CONSTRAINTS[medical_conditions[i]]
              THEN 1 ELSE 0,
              Bind("calculate_preference_bonus.preferred", "calculate_preference_bonus.constraints", 242))

\* a faulty variant: the scores are kept on the catalog itself
ScoreStatements_OnCatalog ==
    <<SetItem("self.recipes", "match_score", 420),
      SetItem("self.recipes", "protein_gap", 421),
      SetItem("self.recipes", "protein_suggestion", 422),
      New("recommend.recommendations", 425),
      New("recommend.return", 427)>>

\* the end of Step 4 and Step 5 of recommend: the three columns written, the ranking and
\* the columns returned
ScoreStatements ==
    <<SetItem("recommend.filtered", "match_score", 420),
      SetItem("recommend.filtered", "protein_gap", 421),
      SetItem("recommend.filtered", "protein_suggestion", 422),
      New("recommend.recommendations", 425),
      New("recommend.return", 427)>>

\* how Steps 3 and 4 end for the rows the medical filter left: with the empty table of
\* line 397, with the exception of line 243, or with the scores of all rows
Ending(filtered, medical_conditions) ==
    IF Len(filtered) = 0 THEN "empty"
    ELSE IF Step4Raises(filtered, medical_conditions) THEN "raised"
    ELSE "scored"

\* the branches a recommend call takes with the rows its filters leave: how it ends, and
\* the index labels of the rows it scores
PathOfFiltered(preference_calls, filtered, medical_conditions) ==
    [preference_calls |-> preference_calls,
     ending           |-> Ending(filtered, medical_conditions),
     labels           |-> [i \in DOMAIN filtered |-> filtered[i].idx]]

\* the branches a recommend call takes, given what the first pass left: its
\* filter_by_preferences calls, with the retry of line 383 when the first pass left nothing
PathFromFirstPass(first, df, user_targets, medical_conditions, preferred_cuisines, disliked_ingredients, allergies) ==
    IF Len(first) = 0
    THEN PathOfFiltered(<<PreferenceCall(preferred_cuisines, disliked_ingredients, allergies),
                          RetryArguments(preferred_cuisines, disliked_ingredients, allergies)>>,
                        AfterMedical(RelaxedPass(df, user_targets, preferred_cuisines,
                                                 disliked_ingredients, allergies),
                                     medical_conditions),
                        medical_conditions)
    ELSE PathOfFiltered(<<PreferenceCall(preferred_cuisines, disliked_ingredients, allergies)>>,
                        AfterMedical(first, medical_conditions), medical_conditions)

\* the branches of one recommend call
RecommendPath(df, user_targets, medical_conditions, preferred_cuisines, disliked_ingredients, allergies) ==
    PathFromFirstPass(FirstPass(df, user_targets, preferred_cuisines, disliked_ingredients, allergies),
                      df, user_targets, medical_conditions, preferred_cuisines,
                      disliked_ingredients, allergies)

\* the statements of a recommend call that takes the branches given
RecommendStatements(path, user_targets, medical_conditions) ==
    BasicStatements(user_targets)
    \o PreferencesStatements(355, path.preference_calls[1])
    \o (IF Len(path.preference_calls) > 1
        THEN RetryStatements(user_targets) \o PreferencesStatements(383, path.preference_calls[2])
        ELSE <<>>)
    \o (IF Len(medical_conditions) > 0 THEN MedicalStatements(medical_conditions) ELSE <<>>)
    \o (IF path.ending = "empty" THEN <<New("recommend.return", 397)>>
        ELSE IF path.ending = "raised" THEN BonusStatements(medical_conditions)
        ELSE BonusStatements(medical_conditions) \o ScoreStatements)

\* the columns the statements wrote into an object
ColumnsWritten(h, object) == {w.col : w \in {x \in h.written : x.object = object}}

\* a table with columns written into it (their values left out)
WithColumns(df, cols) ==
    IF cols = {} THEN df
    ELSE [i \in DOMAIN df |->
             [c \in DOMAIN df[i] \cup cols |-> IF c \in cols THEN "written" ELSE df[i][c]]]

\* self.recipes after the statements of a call
RecipesAfter(df, h) == WithColumns(df, ColumnsWritten(h, Shared("self.recipes")))

\* the objects held since the start that the statements of a call wrote into
SharedWritten(h) == {w.object.name : w \in {x \in h.written : x.object.made = 0}}

\* one entry of the text of recommend_with_display
DisplayEntry(rank, row, medical_conditions) ==
    [rank        |-> rank,
     name        |-> row.RecipeName,
     cuisine     |-> row.Cuisine,
     minutes     |-> row.TotalTimeInMins,
     sodium_line |-> Len(medical_conditions) > 0,
     match_score |-> row.match_score,
     gap_line    |-> FGt(row.protein_gap, FromInt(2)),
     suggestion  |-> FGt(row.protein_gap, FromInt(2)) /\ row.protein_suggestion # "None"]

NoRecipesText == "No suitable recipes found"

RecipesText == "RECOMMENDED RECIPES"

\* MedicalAwareRecipeRecommender.recommend_with_display, given the table recommend returned
recommend_with_display(recommendations, medical_conditions) ==
    IF recommendations = RecommendRaised
    THEN [recommendations |-> RecommendRaised, text |-> "AttributeError", entries |-> <<>>]
    ELSE IF Len(recommendations) = 0
    THEN [recommendations |-> recommendations, text |-> NoRecipesText, entries |-> <<>>]
    ELSE [recommendations |-> recommendations,
          text    |-> RecipesText,
          entries |-> [i \in 1..Len(recommendations) |->
                          DisplayEntry(i, recommendations[i], medical_conditions)]]

\* ------------------------------------------------------------------------
\* collaborative_models.py
\* A model is a record of the attributes its constructor stores.  Matrices
\* are sequences of rows; user_ids / recipe_ids (index / columns) label them.
\* ------------------------------------------------------------------------
\* position of x in a list of distinct labels, 0 for None
IndexOf(x, list) == IF InList(x, list) THEN CHOOSE i \in DOMAIN list : list[i] = x ELSE 0

RECURSIVE FSum(_)
FSum(xs) == IF xs = <<>> THEN FZero ELSE FAdd(FSum(SubSeq(xs, 1, Len(xs) - 1)), xs[Len(xs)])

\* np.dot of two vectors
Dot(a, b) == FSum([i \in 1..Len(a) |-> FMul(a[i], b[i])])

Column(matrix, j) == [i \in 1..Len(matrix) |-> matrix[i][j]]

\* a faulty variant of the clip: only the lower end is enforced
Clip15_NoUpper(x) == IF FLt(x, FromInt(1)) THEN FromInt(1) ELSE x

\* np.clip(x, 1, 5)
Clip15(x) == IF FLt(x, FromInt(1)) THEN FromInt(1) ELSE IF FGt(x, FromInt(5)) THEN FromInt(5) ELSE x

\* SimpleSVD.predict
SVD_predict(model, user_id, recipe_id) ==
    LET user_idx   == IndexOf(user_id, model.user_ids)
        recipe_idx == IndexOf(recipe_id, model.recipe_ids)
    IN  IF user_idx = 0 \/ recipe_idx = 0 THEN Dec(35, 10)
        ELSE LET us == [j \in 1..Len(model.sigma) |-> Dot(model.U[user_idx], Column(model.sigma, j))]
             IN  Clip15(FAdd(Dot(us, Column(model.Vt, recipe_idx)), model.user_means[user_idx]))

\* the mean of one column of rating_matrix.replace(0, nan): NaN-skipping, "nan" when nothing is left
NonZero(xs) == SelectSeq(xs, LAMBDA x : x # 0)

ColumnMean(ratings, j) ==
    LET obs == NonZero(Column(ratings, j))
    IN  FDiv(FSum([i \in 1..Len(obs) |-> FromInt(obs[i])]), FromInt(Len(obs)))

RatedColumns(ratings, n_cols) == SelectSeq([j \in 1..n_cols |-> j],
                                           LAMBDA j : NonZero(Column(ratings, j)) # <<>>)

\* SimpleUserCF.__init__: rating_matrix.replace(0, np.nan).mean().mean()
GlobalMean(ratings, n_cols) ==
    LET cols == RatedColumns(ratings, n_cols)
    IN  FDiv(FSum([c \in 1..Len(cols) |-> ColumnMean(ratings, cols[c])]), FromInt(Len(cols)))

\* similarity_matrix[user_id] as rows [user, similarity], in index order
SimilarityColumn(model, user_id) ==
    LET u == IndexOf(user_id, model.user_ids)
    IN  [i \in 1..Len(model.user_ids) |->
            [idx |-> i, user |-> model.user_ids[i], similarity |-> model.similarity_matrix[i][u]]]

\* .sort_values(ascending=False)[1:k+1]: the orders the sort can produce, first row dropped
SimilarUsers(model, user_id) ==
    {SubSeq(sorted, 2, MinOf(model.k + 1, Len(sorted))) :
        sorted \in SortDescOutcomes(SimilarityColumn(model, user_id), "similarity")}

\* the neighbours whose rating of the recipe enters the average
Contributing(model, similar_users, recipe_id) ==
    SelectSeq(similar_users,
              LAMBDA n : /\ FGt(n.similarity, FZero)
                         /\ model.rating_matrix[n.idx][IndexOf(recipe_id, model.recipe_ids)] > 0)

\* np.average(ratings, weights=weights)
WeightedAverage(ratings, weights) ==
    FDiv(FSum([i \in 1..Len(ratings) |-> FMul(ratings[i], weights[i])]), FSum(weights))

\* SimpleUserCF.predict, for one order of the similar users
UserCF_predict(model, similar_users, user_id, recipe_id) ==
    IF ~InList(user_id, model.user_ids) THEN model.global_mean
    ELSE IF ~InList(recipe_id, model.recipe_ids) THEN model.global_mean
    ELSE LET used == Contributing(model, similar_users, recipe_id)
             col  == IndexOf(recipe_id, model.recipe_ids)
         IN  IF Len(used) = 0 THEN model.global_mean
             ELSE Clip15(WeightedAverage(
                      [i \in 1..Len(used) |-> FromInt(model.rating_matrix[used[i].idx][col])],
                      [i \in 1..Len(used) |-> used[i].similarity]))

\* the orders of similar users open to a prediction for user_id (one, empty, for an unknown user)
NeighbourOrders(model, user_id) ==
    IF model.kind = "usercf" /\ InList(user_id, model.user_ids)
    THEN SimilarUsers(model, user_id)
    ELSE {<<>>}

\* tier3_model.predict(user_id, recipe_id)
predict(model, similar_users, user_id, recipe_id) ==
    IF model.kind = "svd" THEN SVD_predict(model, user_id, recipe_id)
    ELSE IF model.kind = "usercf" THEN UserCF_predict(model, similar_users, user_id, recipe_id)
    ELSE model.rating

\* joblib.load returns whatever object the file holds: an object of another class, whose
\* predict raises for some recipe ids and returns one rating for the others
OtherModel(raises_for, rating) == [kind |-> "other", raises_for |-> raises_for, rating |-> rating]

\* tier3_model.predict(user_id, recipe_id) raises
PredictRaises(model, recipe_id) == model.kind = "other" /\ recipe_id \in model.raises_for

\* ------------------------------------------------------------------------
\* hybrid_recommender.py
\* ------------------------------------------------------------------------
NoUser == -1

\* has_tier3 = False: joblib.load failed
NoModel == [has_tier3 |-> FALSE]

\* the recipe_id _add_tier3_scores takes for a row: its Srno when the row has that column,
\* otherwise the row's index label
RecipeIdOf(row) == IF "Srno" \in DOMAIN row THEN row.Srno ELSE row.idx

\* the body of the loop of _add_tier3_scores: the rating as a score, or the neutral score
\* of the except branch
ScoreForId(model, similar_users, user_id, recipe_id) ==
    IF PredictRaises(model, recipe_id) THEN FromInt(50)
    ELSE FMul(FDiv(FSub(predict(model, similar_users, user_id, recipe_id), FromInt(1)), FromInt(4)),
              FromInt(100))

\* HybridRecommender._add_tier3_scores for one row: the table that recommend
\* returned has no Srno column, so the id is the row's index label
Tier3Score(model, similar_users, user_id, row) ==
    ScoreForId(model, similar_users, user_id, RecipeIdOf(row))

\* a faulty variant of Step 3: the two weights are exchanged
HybridScore_SwappedWeights(match_score, tier3_score) ==
    FAdd(FMul(match_score, Dec(3, 10)), FMul(tier3_score, Dec(7, 10)))

\* Step 3 of recommend_hybrid: the hybrid score of one row
HybridScore(match_score, tier3_score) ==
    FAdd(FMul(match_score, Dec(7, 10)), FMul(tier3_score, Dec(3, 10)))

\* a faulty variant: the hybrid score is the tier-3 score alone
WithScores_Unblended(row, tier3_score) ==
    [c \in DOMAIN row \cup {"tier3_score", "hybrid_score"} |->
        IF c = "tier3_score" THEN tier3_score
        ELSE IF c = "hybrid_score" THEN tier3_score
        ELSE row[c]]

\* the row with its tier3_score and hybrid_score columns
WithScores(row, tier3_score) ==
    [c \in DOMAIN row \cup {"tier3_score", "hybrid_score"} |->
        IF c = "tier3_score" THEN tier3_score
        ELSE IF c = "hybrid_score" THEN HybridScore(row.match_score, tier3_score)
        ELSE row[c]]

\* Steps 2 and 3 of recommend_hybrid for one row
HybridRow(t3, similar_users, user_id, row) ==
    WithScores(row,
               IF t3.has_tier3 /\ user_id # NoUser
               THEN Tier3Score(t3.tier3_model, similar_users, user_id, row)
               ELSE FromInt(50))

\* a faulty variant: tier 2 is asked for twice as many candidates
TIER2_TOP_N_Doubled == 50 * 2

\* top_n of the tier-2 call of recommend_hybrid
TIER2_TOP_N == 50

\* Steps 2 to 4 of recommend_hybrid on one table that tier 2 returned
Rescored(t3, user_id, tier2_results, top_n) ==
    IF tier2_results = RecommendRaised THEN {RecommendRaised}
    ELSE IF Len(tier2_results) = 0 THEN {<<>>}
    ELSE UNION {{Head_n(sorted, top_n) :
                    sorted \in SortDescOutcomes(
                        [i \in DOMAIN tier2_results |->
                            HybridRow(t3, similar_users, user_id, tier2_results[i])],
                        "hybrid_score")} :
                similar_users \in IF t3.has_tier3 /\ user_id # NoUser
                                  THEN NeighbourOrders(t3.tier3_model, user_id)
                                  ELSE {<<>>}}

\* the predict calls of _add_tier3_scores for the tables tier 2 can return: the row each
\* is made for, by its index label, and the recipe_id it passes
PredictCalls(tables) ==
    UNION {{[idx |-> tier2_results[i].idx, recipe_id |-> RecipeIdOf(tier2_results[i])] :
               i \in DOMAIN tier2_results} : tier2_results \in tables \ {RecommendRaised}}

\* one run of HybridRecommender.recommend_hybrid: the tables it can return, and the
\* calls and the cause of the tier-2 run inside it
HybridRun(df, t3, user_id, user_targets, medical_conditions, top_n) ==
    LET Rescore(tier2) ==
            [tables           |-> UNION {Rescored(t3, user_id, tier2_results, top_n) :
                                            tier2_results \in tier2.tables},
             preference_calls |-> tier2.preference_calls,
             cause            |-> tier2.cause,
             predict_calls    |-> IF t3.has_tier3 /\ user_id # NoUser
                                  THEN PredictCalls(tier2.tables)
                                  ELSE {}]
    IN  Rescore(RecommendRun(df, user_targets, medical_conditions, <<>>, <<>>, <<>>, TIER2_TOP_N))

\* HybridRecommender.recommend_hybrid: the tables it can return
recommend_hybrid(df, t3, user_id, user_targets, medical_conditions, top_n) ==
    HybridRun(df, t3, user_id, user_targets, medical_conditions, top_n).tables

\* one call of tier3_model.predict: SimpleUserCF.predict with a user and a recipe it knows
\* sorts the user's column of the similarity matrix into a new Series (line 56), and
\* returns before that line otherwise; SimpleSVD.predict computes numbers only
PredictStatements(model, user_id, recipe_id) ==
    IF /\ model.kind = "usercf"
       /\ InList(user_id, model.user_ids)
       /\ InList(recipe_id, model.recipe_ids)
    THEN <<Bind("predict.column", "self.tier3_model", 56), New("predict.similar_users", 56)>>
    ELSE <<>>

\* the predict calls of the loop of _add_tier3_scores, one for each recipe_id, each
\* statement once
LoopOfPredicts(model, user_id, recipe_ids) ==
    IF \E id \in recipe_ids : PredictStatements(model, user_id, id) # <<>>
    THEN CHOOSE s \in {PredictStatements(model, user_id, id) : id \in recipe_ids} : s # <<>>
    ELSE <<>>

\* Steps 2 to 4 of recommend_hybrid for the recipe_ids of the rows tier 2 returned
RescoreStatements(t3, user_id, recipe_ids) ==
    (IF t3.has_tier3 /\ user_id # NoUser
     THEN <<Bind("_add_tier3_scores.recipes_df", "recommend_hybrid.tier2_results", 67)>>
          \o LoopOfPredicts(t3.tier3_model, user_id, recipe_ids)
          \o <<New("_add_tier3_scores.recipes_df", 111),
               SetItem("_add_tier3_scores.recipes_df", "tier3_score", 112),
               Bind("recommend_hybrid.tier2_results", "_add_tier3_scores.recipes_df", 67)>>
     ELSE <<SetItem("recommend_hybrid.tier2_results", "tier3_score", 71)>>)
    \o <<SetItem("recommend_hybrid.tier2_results", "hybrid_score", 75),
         New("recommend_hybrid.results", 81)>>

\* the recipe_ids of the rows tier 2 can return, a set for each table: the returned table
\* has no Srno column, so the id is the index label; all scored rows are returned unless
\* there are more than top_n of them
Tier2Ids(df, path, user_targets, medical_conditions) ==
    IF path.ending # "scored" THEN {{}}
    ELSE IF Len(path.labels) <= TIER2_TOP_N THEN {{path.labels[i] : i \in DOMAIN path.labels}}
    ELSE {{RecipeIdOf(tier2_results[i]) : i \in DOMAIN tier2_results} :
             tier2_results \in recommend(df, user_targets, medical_conditions, <<>>, <<>>, <<>>,
                                         TIER2_TOP_N)}

\* the statements of a recommend_hybrid call whose tier-2 call takes the branches given
\* and returns rows with the recipe_ids given
HybridStatements(path, recipe_ids, t3, user_id, user_targets, medical_conditions) ==
    RecommendStatements(path, user_targets, medical_conditions)
    \o (IF path.ending = "raised" THEN <<>>
        ELSE <<Bind("recommend_hybrid.tier2_results", "recommend.return", 52)>>
             \o (IF path.ending = "empty" THEN <<New("recommend_hybrid.return", 60)>>
                 ELSE RescoreStatements(t3, user_id, recipe_ids)))

\* what joblib.load gave after the statements of a call
Tier3After(t3, h) ==
    IF ColumnsWritten(h, Shared("self.tier3_model")) = {} THEN t3
    ELSE [c \in DOMAIN t3 \cup {"written"} |->
             IF c = "written" THEN ColumnsWritten(h, Shared("self.tier3_model")) ELSE t3[c]]

\* ------------------------------------------------------------------------
\* train_collaborative_filter.py: building the two models
\* ------------------------------------------------------------------------
\* the square root of a perfect square (the rating rows used have whole-number norms)
ISqrt(n) == CHOOSE r \in 0..n : r * r = n

RECURSIVE SumSquares(_)
SumSquares(row) == IF row = <<>> THEN 0 ELSE row[1] * row[1] + SumSquares(Tail(row))

\* a row with every entry divided by norm
RECURSIVE Scaled(_, _)
Scaled(row, norm) ==
    IF row = <<>> THEN <<>>
    ELSE <<FDiv(FromInt(Head(row)), FromInt(norm))>> \o Scaled(Tail(row), norm)

\* sklearn normalize: the row divided by its Euclidean norm (a zero norm counts as 1)
Normalized(row) == Scaled(row, IF SumSquares(row) = 0 THEN 1 ELSE ISqrt(SumSquares(row)))

RECURSIVE NormalizedRows(_)
NormalizedRows(ratings) ==
    IF ratings = <<>> THEN <<>>
    ELSE <<Normalized(Head(ratings))>> \o NormalizedRows(Tail(ratings))

\* cosine_similarity(train_matrix): the products of the normalized rows
cosine_similarity(ratings) ==
    LET Products(normed) ==
            [i \in 1..Len(normed) |-> [u \in 1..Len(normed) |-> Dot(normed[i], normed[u])]]
    IN  Products(NormalizedRows(ratings))

\* the training script's rating matrix with its similarity matrix
Trained(ratings) == [ratings |-> ratings, similarity |-> cosine_similarity(ratings)]

\* SimpleUserCF(train_matrix, user_similarity_df, k)
SimpleUserCF(ratings, similarity, user_ids, recipe_ids, k) ==
    [kind              |-> "usercf",
     rating_matrix     |-> ratings,
     user_ids          |-> user_ids,
     recipe_ids        |-> recipe_ids,
     similarity_matrix |-> similarity,
     k                 |-> k,
     global_mean       |-> GlobalMean(ratings, Len(recipe_ids))]

\* SimpleSVD(U_k, sigma_k, Vt_k, user_means, user_ids, recipe_ids)
SimpleSVD(U, sigma, Vt, user_means, user_ids, recipe_ids) ==
    [kind       |-> "svd",
     U          |-> U,
     sigma      |-> sigma,
     Vt         |-> Vt,
     user_means |-> user_means,
     user_ids   |-> user_ids,
     recipe_ids |-> recipe_ids]

\* ------------------------------------------------------------------------
\* app.py: the endpoints that build a nutrition plan
\* ------------------------------------------------------------------------
\* str.capitalize()
Capitalize(s) == [i \in 1..Len(s) |-> IF i = 1 THEN ToUpper(s[i]) ELSE ToLower(s[i])]

\* the fields calculate_diet_plan looks for before it calls the engine
required == <<"age", "gender", "weight_kg", "height_cm", "activity_level", "goal">>

\* the body of a response for a plan or for the exception the engine raised: str(KeyError(k))
\* is the key in quotes
PlanResponse(plan) ==
    IF plan.status = "KeyError"
    THEN [code |-> 500, error |-> <<"'">> \o <<plan.key>> \o <<"'">>]
    ELSE [code |-> 200, status |-> "success", data |-> plan]

\* POST /api/diet/calculate-plan
calculate_diet_plan(user_profile) ==
    IF \E i \in DOMAIN required : required[i] \notin DOMAIN user_profile
    THEN [code  |-> 400,
          error |-> <<"Missing required field: ",
                      required[CHOOSE i \in DOMAIN required :
                                  /\ required[i] \notin DOMAIN user_profile
                                  /\ \A j \in 1..(i - 1) : required[j] \in DOMAIN user_profile]>>]
    ELSE PlanResponse(generate_personalized_plan(user_profile))

\* the order of the loop over the meals
meals == <<"breakfast", "lunch", "dinner", "snacks">>

MealNames == {meals[i] : i \in DOMAIN meals}

MealText(meal) ==
    CASE meal = "breakfast" -> <<"b", "r", "e", "a", "k", "f", "a", "s", "t">>
      [] meal = "lunch"     -> <<"l", "u", "n", "c", "h">>
      [] meal = "dinner"    -> <<"d", "i", "n", "n", "e", "r">>
      [] meal = "snacks"    -> <<"s", "n", "a", "c", "k", "s">>

\* the time limit of a meal: the profile's limit for it when it has one, otherwise 60
TimeConstraint(user_profile, meal) ==
    IF Get(Get(user_profile, "max_time_mins", [k \in {} |-> 0]), meal, 0) # 0
    THEN user_profile.max_time_mins[meal]
    ELSE 60

\* a faulty variant: the snack calories are passed on as planned
MealTargets_SnackAsPlanned(user_profile, meal_breakdown, meal) ==
    [course    |-> IF meal = "snacks" THEN <<"S", "n", "a", "c", "k", "|", "A", "p", "p", "e", "t", "i", "z", "e", "r", "|", "S", "i", "d", "e", " ", "D", "i", "s", "h">>
                   ELSE Capitalize(MealText(meal)),
     calories  |-> meal_breakdown[meal].calories,
     protein_g |-> meal_breakdown[meal].protein_g,
     carbs_g   |-> meal_breakdown[meal].carbs_g,
     fat_g     |-> meal_breakdown[meal].fat_g,
     diet      |-> Get(user_profile, "diet_type", <<"V", "e", "g", "e", "t", "a", "r", "i", "a", "n">>),
     max_time  |-> TimeConstraint(user_profile, meal)]

\* meal_targets of one round of the loop of complete_meal_plan
MealTargets(user_profile, meal_breakdown, meal) ==
    [course    |-> IF meal = "snacks" THEN <<"S", "n", "a", "c", "k", "|", "A", "p", "p", "e", "t", "i", "z", "e", "r", "|", "S", "i", "d", "e", " ", "D", "i", "s", "h">>
                   ELSE Capitalize(MealText(meal)),
     calories  |-> IF meal = "snacks" THEN meal_breakdown[meal].calories * 2
                   ELSE meal_breakdown[meal].calories,
     protein_g |-> meal_breakdown[meal].protein_g,
     carbs_g   |-> meal_breakdown[meal].carbs_g,
     fat_g     |-> meal_breakdown[meal].fat_g,
     diet      |-> Get(user_profile, "diet_type", <<"V", "e", "g", "e", "t", "a", "r", "i", "a", "n">>),
     max_time  |-> TimeConstraint(user_profile, meal)]

\* one entry of meal_plans[meal]
MealEntry(recipe) ==
    [recipe_name |-> recipe.RecipeName,
     cuisine     |-> recipe.Cuisine,
     time_mins   |-> recipe.TotalTimeInMins,
     nutrition   |-> [calories  |-> recipe.energy_per_serving,
                      protein_g |-> recipe.protein_per_serving,
                      carbs_g   |-> recipe.carbohydrate_per_serving,
                      fat_g     |-> recipe.fat_per_serving,
                      sodium_mg |-> recipe.sodium_per_serving],
     match_score        |-> recipe.match_score,
     protein_suggestion |-> recipe.protein_suggestion]

\* the recommend call for one meal: the tables it can return
MealRecommend(df, user_profile, meal_breakdown, meal) ==
    recommend(df, MealTargets(user_profile, meal_breakdown, meal),
              Get(user_profile, "medical_conditions", <<>>),
              Get(user_profile, "preferred_cuisines", <<>>),
              Get(user_profile, "disliked_ingredients", <<>>),
              Get(user_profile, "allergies", <<>>), 3)

\* meal_plans[meal] for the table recommend returned
MealEntries(table) == [i \in 1..Len(table) |-> MealEntry(table[i])]

\* the response of complete_meal_plan for a nutrition plan and its meal plans
MealPlanResponse(user_profile, nutrition_plan, meal_plans) ==
    [code   |-> 200,
     status |-> "success",
     data   |-> [user_profile      |-> user_profile,
                 nutrition_targets |-> [bmr             |-> nutrition_plan.bmr,
                                        tdee            |-> nutrition_plan.tdee,
                                        target_calories |-> nutrition_plan.target_calories,
                                        daily_macros    |-> nutrition_plan.daily_macros,
                                        meal_breakdown  |-> nutrition_plan.meal_breakdown],
                 meal_plans        |-> meal_plans,
                 applied_preferences |->
                     [cuisines             |-> Get(user_profile, "preferred_cuisines", "None"),
                      excluded_ingredients |-> Get(user_profile, "disliked_ingredients", "None"),
                      allergies            |-> Get(user_profile, "allergies", "None"),
                      time_constraints     |-> Get(user_profile, "max_time_mins", [k \in {} |-> 0])]]]

\* the loop over the meals from the i-th on: what recommend can do, round by round; the loop
\* ends with the round in which recommend raises
RECURSIVE TableChoices(_, _, _, _)
TableChoices(df, user_profile, meal_breakdown, i) ==
    IF i > Len(meals) THEN {<<>>}
    ELSE UNION {IF table = RecommendRaised THEN {<<table>>}
                ELSE {<<table>> \o rest :
                         rest \in TableChoices(df, user_profile, meal_breakdown, i + 1)} :
                   table \in MealRecommend(df, user_profile, meal_breakdown, meals[i])}

\* meal_plans by meal key, for the tables in the order of the loop
MealPlansByKey(tables) == [meal \in MealNames |-> MealEntries(tables[IndexOf(meal, meals)])]

\* the response of complete_meal_plan when an exception with this text reached its handler
MealPlanError(text) == [code |-> 500, error |-> text]

\* the response of complete_meal_plan for the rounds its loop made
MealPlanAfterLoop(user_profile, nutrition_plan, tables) ==
    IF tables[Len(tables)] = RecommendRaised
    THEN MealPlanError(AttributeErrorText)
    ELSE MealPlanResponse(user_profile, nutrition_plan, MealPlansByKey(tables))

\* the responses of complete_meal_plan for a nutrition plan
MealPlanResponses(df, user_profile, nutrition_plan) ==
    {MealPlanAfterLoop(user_profile, nutrition_plan, tables) :
        tables \in TableChoices(df, user_profile, nutrition_plan.meal_breakdown, 1)}

\* the responses for what generate_personalized_plan did
MealPlanFromPlan(df, user_profile, nutrition_plan) ==
    IF nutrition_plan.status = "KeyError"
    THEN {PlanResponse(nutrition_plan)}
    ELSE MealPlanResponses(df, user_profile, nutrition_plan)

\* the meal targets complete_meal_plan builds and prints, one in each round its loop made
\* (none when the plan failed)
MealTargetsPrinted(user_profile, nutrition_plan, rounds) ==
    IF nutrition_plan.status = "KeyError" THEN [op |-> "complete_meal_plan"]
    ELSE [op           |-> "complete_meal_plan",
          meal_targets |-> [meal \in {meals[i] : i \in 1..rounds} |->
                               MealTargets(user_profile, nutrition_plan.meal_breakdown, meal)]]

\* the response of complete_meal_plan when recipe_recommender is None
RecommenderNotLoaded == [code |-> 500, error |-> <<"Recipe recommender not loaded">>]

\* the response of the hybrid endpoint when HybridRecommender(recipes_df) raised
HybridNotAvailable ==
    [code     |-> 500,
     error    |-> <<"Hybrid recommender not available">>,
     fallback |-> <<"Use /api/diet/recommend-recipes for TIER 2 only">>]

\* POST /api/diet/complete-meal-plan: the responses it can give
complete_meal_plan(recommender, df, user_profile) ==
    IF recommender = "None" THEN {RecommenderNotLoaded}
    ELSE MealPlanFromPlan(df, user_profile, generate_personalized_plan(user_profile))

\* ------------------------------------------------------------------------
\* app.py: the hybrid endpoint
\* ------------------------------------------------------------------------
\* targets of recommend_hybrid
HybridTargets(data) ==
    [course        |-> Capitalize(Get(data, "meal", <<"B", "r", "e", "a", "k", "f", "a", "s", "t">>)),
     calories      |-> data.calories,
     protein_g     |-> data.protein_g,
     carbs_g       |-> data.carbs_g,
     fat_g         |-> data.fat_g,
     diet          |-> Get(data, "diet", <<"V", "e", "g", "e", "t", "a", "r", "i", "a", "n">>),
     max_time_mins |-> Get(data, "max_time_mins", 45)]

\* one entry of recommendations
HybridEntry(recipe) ==
    [recipe_name |-> recipe.RecipeName,
     cuisine     |-> recipe.Cuisine,
     diet        |-> recipe.Diet,
     time_mins   |-> recipe.TotalTimeInMins,
     nutrition   |-> [calories  |-> recipe.energy_per_serving,
                      protein_g |-> recipe.protein_per_serving,
                      carbs_g   |-> recipe.carbohydrate_per_serving,
                      fat_g     |-> recipe.fat_per_serving,
                      sodium_mg |-> recipe.sodium_per_serving],
     scores      |-> [tier2_nutrition  |-> recipe.match_score,
                      tier3_preference |-> Get(recipe, "tier3_score", FromInt(50)),
                      hybrid_overall   |-> recipe.hybrid_score],
     protein_suggestion |-> recipe.protein_suggestion]

\* one frame of a traceback: the file, the line and the function
Frame(file, line, name) == [file |-> file, line |-> line, name |-> name]

\* traceback.format_exc(): the heading, the frames from the handler down to the raise, and
\* the line of the exception
format_exc(frames, exception) ==
    [heading   |-> "Traceback (most recent call last):",
     frames    |-> frames,
     exception |-> exception]

\* the response of the except branch of the hybrid endpoint
HybridError(text, frames, exception) ==
    [code |-> 500, error |-> text, traceback |-> format_exc(frames, exception)]

\* the frames from the handler to the .lower() of a missing ingredients cell
FramesToLower ==
    <<Frame("app.py", 839, "recommend_hybrid"),
      Frame("hybrid_recommender.py", 52, "recommend_hybrid"),
      Frame("recipe_recommender.py", 410, "recommend"),
      Frame("recipe_recommender.py", 243, "calculate_preference_bonus")>>

\* the responses for what recommend_hybrid can do
HybridResponses(tables) ==
    {IF results = RecommendRaised
     THEN HybridError(AttributeErrorText, FramesToLower, <<"AttributeError: ">> \o AttributeErrorText)
     ELSE
     [code   |-> 200,
      status |-> "success",
      data   |-> [recommendations |-> [i \in 1..Len(results) |-> HybridEntry(results[i])],
                  count           |-> Len(results),
                  model_info      |-> [tier2       |-> "Content-based filtering (nutrition + medical)",
                                       tier3       |-> "Collaborative filtering (user preferences)",
                                       combination |-> "70% nutrition + 30% preference"]]] :
        results \in tables}

\* the four targets the handler reads with data[...], in the order it reads them
TargetKeys == <<"calories", "protein_g", "carbs_g", "fat_g">>

\* the first of the four targets the body lacks
MissingTarget(data) == Head(SelectSeq(TargetKeys, LAMBDA k : k \notin DOMAIN data))

\* str(KeyError(k)): the key in quotes
KeyErrorText(k) == <<"'">> \o <<k>> \o <<"'">>

\* the line of app.py that reads data[k]
TargetLine(k) == 830 + IndexOf(k, TargetKeys)

\* the handler of POST /api/diet/recommend-hybrid once hybrid_recommender is in place: the
\* responses it can give
hybrid_endpoint(df, t3, data) ==
    IF \E i \in DOMAIN TargetKeys : TargetKeys[i] \notin DOMAIN data
    THEN {HybridError(KeyErrorText(MissingTarget(data)),
                      <<Frame("app.py", TargetLine(MissingTarget(data)), "recommend_hybrid")>>,
                      <<"KeyError: ">> \o KeyErrorText(MissingTarget(data)))}
    ELSE HybridResponses(recommend_hybrid(df, t3, Get(data, "user_id", NoUser), HybridTargets(data),
                                          Get(data, "medical_conditions", <<>>), Get(data, "top_n", 5)))

\* results = hybrid_recommender.recommend_hybrid(...) of the handler: the frame the method
\* returned, which is the one of line 60 or the one the method calls results
ResultsStatement(path) ==
    IF path.ending = "raised" THEN <<>>
    ELSE <<Bind("recommend_hybrid.results",
                IF path.ending = "empty" THEN "recommend_hybrid.return" ELSE "recommend_hybrid.results",
                839)>>

\* the statements of the handler from line 827 on when tier 2 takes the branches given, a
\* list for each table tier 2 can return
HybridEndpointPath(path, df, t3, data) ==
    {HybridStatements(path, recipe_ids, t3, Get(data, "user_id", NoUser), HybridTargets(data),
                      Get(data, "medical_conditions", <<>>))
     \o ResultsStatement(path) :
        recipe_ids \in Tier2Ids(df, path, HybridTargets(data), Get(data, "medical_conditions", <<>>))}

\* the statements of the handler of POST /api/diet/recommend-hybrid from line 827 on
HybridEndpointStatements(df, t3, data) ==
    IF \E i \in DOMAIN TargetKeys : TargetKeys[i] \notin DOMAIN data THEN {<<>>}
    ELSE HybridEndpointPath(RecommendPath(df, HybridTargets(data), Get(data, "medical_conditions", <<>>),
                                          <<>>, <<>>, <<>>),
                            df, t3, data)

\* the statements of the recommend call of one meal and of the assignment of its result
MealPath(path, user_profile, meal_breakdown, meal) ==
    RecommendStatements(path, MealTargets(user_profile, meal_breakdown, meal),
                        Get(user_profile, "medical_conditions", <<>>))
    \o (IF path.ending = "raised" THEN <<>>
        ELSE <<Bind("complete_meal_plan.recommendations_df", "recommend.return", 754)>>)

\* the statements of one round of the loop of complete_meal_plan
MealStatements(df, user_profile, meal_breakdown, meal) ==
    MealPath(RecommendPath(df, MealTargets(user_profile, meal_breakdown, meal),
                           Get(user_profile, "medical_conditions", <<>>),
                           Get(user_profile, "preferred_cuisines", <<>>),
                           Get(user_profile, "disliked_ingredients", <<>>),
                           Get(user_profile, "allergies", <<>>)),
             user_profile, meal_breakdown, meal)

\* ------------------------------------------------------------------------
\* Bounds and inputs
\* ------------------------------------------------------------------------
MaxCatalog == 3

MaxConds == 2

MaxTopN == 2

\* top_n of a request: one row, or MaxTopN rows
TopNChoices == {1, MaxTopN}

\* a sample of data/recipe_nutrients_cleaned.csv rows; nutrient values are whole numbers
SampleRows ==
    << [Srno |-> 1, RecipeName |-> <<"B", "u", "t", "t", "e", "r", " ", "T", "o", "a", "s", "t">>, Cuisine |-> <<"C", "o", "n", "t", "i", "n", "e", "n", "t", "a", "l">>,
        Diet |-> <<"V", "e", "g", "e", "t", "a", "r", "i", "a", "n">>, Course |-> <<"B", "r", "e", "a", "k", "f", "a", "s", "t">>, TotalTimeInMins |-> 10,
        Ingredients |-> <<"W", "h", "i", "t", "e", " ", "b", "r", "e", "a", "d", " ", "S", "a", "l", "t", "e", "d", " ", "b", "u", "t", "t", "e", "r", " ", "S", "u", "g", "a", "r">>,
        energy_per_serving |-> 350, protein_per_serving |-> 8, carbohydrate_per_serving |-> 48,
        fat_per_serving |-> 16, sodium_per_serving |-> 650],
       [Srno |-> 2, RecipeName |-> <<"O", "a", "t", "s", " ", "U", "p", "m", "a">>, Cuisine |-> <<"I", "n", "d", "i", "a", "n">>,
        Diet |-> <<"V", "e", "g", "e", "t", "a", "r", "i", "a", "n">>, Course |-> <<"S", "o", "u", "t", "h", " ", "I", "n", "d", "i", "a", "n", " ", "B", "r", "e", "a", "k", "f", "a", "s", "t">>, TotalTimeInMins |-> 25,
        Ingredients |-> <<"O", "a", "t", "s", " ", "L", "e", "m", "o", "n", " ", "g", "a", "r", "l", "i", "c", " ", "f", "r", "e", "s", "h", " ", "h", "e", "r", "b", "s", " ", "l", "o", "w", " ", "s", "o", "d", "i", "u", "m", " ", "s", "t", "o", "c", "k">>,
        energy_per_serving |-> 400, protein_per_serving |-> 20, carbohydrate_per_serving |-> 40,
        fat_per_serving |-> 10, sodium_per_serving |-> 300],
       [Srno |-> 3, RecipeName |-> <<"V", "e", "g", " ", "P", "o", "h", "a">>, Cuisine |-> <<"I", "n", "d", "i", "a", "n">>,
        Diet |-> <<"V", "e", "g", "e", "t", "a", "r", "i", "a", "n">>, Course |-> <<"B", "r", "e", "a", "k", "f", "a", "s", "t">>, TotalTimeInMins |-> 20,
        Ingredients |-> <<"P", "o", "h", "a", " ", "p", "e", "a", "n", "u", "t", "s", " ", "o", "n", "i", "o", "n", " ", "l", "e", "m", "o", "n">>,
        energy_per_serving |-> 400, protein_per_serving |-> 20, carbohydrate_per_serving |-> 40,
        fat_per_serving |-> 10, sodium_per_serving |-> 300],
       [Srno |-> 4, RecipeName |-> <<"P", "a", "n", "e", "e", "r", " ", "P", "a", "r", "a", "t", "h", "a">>, Cuisine |-> <<"I", "n", "d", "i", "a", "n">>,
        Diet |-> <<"H", "i", "g", "h", " ", "P", "r", "o", "t", "e", "i", "n", " ", "V", "e", "g", "e", "t", "a", "r", "i", "a", "n">>, Course |-> <<"N", "o", "r", "t", "h", " ", "I", "n", "d", "i", "a", "n", " ", "B", "r", "e", "a", "k", "f", "a", "s", "t">>,
        TotalTimeInMins |-> 45,
        Ingredients |-> <<"W", "h", "e", "a", "t", " ", "a", "t", "t", "a", " ", "p", "a", "n", "e", "e", "r", " ", "g", "h", "e", "e", " ", "o", "n", "i", "o", "n">>,
        energy_per_serving |-> 520, protein_per_serving |-> 24, carbohydrate_per_serving |-> 44,
        fat_per_serving |-> 14, sodium_per_serving |-> 600],
       [Srno |-> 5, RecipeName |-> <<"G", "a", "r", "a", "m", " ", "M", "a", "s", "a", "l", "a", " ", "P", "o", "w", "d", "e", "r">>, Cuisine |-> <<"I", "n", "d", "i", "a", "n">>,
        Diet |-> <<"V", "e", "g", "e", "t", "a", "r", "i", "a", "n">>, Course |-> <<"B", "r", "e", "a", "k", "f", "a", "s", "t">>, TotalTimeInMins |-> 5,
        Ingredients |-> <<"C", "u", "m", "i", "n", " ", "c", "o", "r", "i", "a", "n", "d", "e", "r", " ", "c", "a", "r", "d", "a", "m", "o", "m">>,
        energy_per_serving |-> 20, protein_per_serving |-> 1, carbohydrate_per_serving |-> 3,
        fat_per_serving |-> 1, sodium_per_serving |-> 5],
       [Srno |-> 6, RecipeName |-> <<"P", "e", "a", "n", "u", "t", " ", "C", "h", "a", "a", "t">>, Cuisine |-> <<"I", "n", "d", "i", "a", "n">>,
        Diet |-> <<"V", "e", "g", "a", "n">>, Course |-> <<"S", "n", "a", "c", "k">>, TotalTimeInMins |-> 15,
        Ingredients |-> <<"P", "e", "a", "n", "u", "t", "s", " ", "o", "n", "i", "o", "n", " ", "l", "e", "m", "o", "n">>,
        energy_per_serving |-> 200, protein_per_serving |-> 9, carbohydrate_per_serving |-> 20,
        fat_per_serving |-> 12, sodium_per_serving |-> 550],
       [Srno |-> 7, RecipeName |-> <<"Q", "u", "i", "n", "o", "a", " ", "S", "a", "l", "a", "d">>, Cuisine |-> <<"M", "e", "d", "i", "t", "e", "r", "r", "a", "n", "e", "a", "n">>,
        Diet |-> <<"G", "l", "u", "t", "e", "n", " ", "F", "r", "e", "e">>, Course |-> <<"S", "i", "d", "e", " ", "D", "i", "s", "h">>, TotalTimeInMins |-> 20,
        Ingredients |-> <<"Q", "u", "i", "n", "o", "a", " ", "c", "u", "c", "u", "m", "b", "e", "r", " ", "o", "l", "i", "v", "e", " ", "o", "i", "l", " ", "l", "e", "m", "o", "n">>,
        energy_per_serving |-> 220, protein_per_serving |-> 8, carbohydrate_per_serving |-> 30,
        fat_per_serving |-> 7, sodium_per_serving |-> 120] >>

\* pd.read_csv: the rows in file order under a RangeIndex 0, 1, 2, ...
ReadCsv(rows) ==
    [i \in 1..Len(rows) |->
        [c \in DOMAIN rows[i] \cup {"idx"} |-> IF c = "idx" THEN i - 1 ELSE rows[i][c]]]

\* the catalogs: every run of MaxCatalog consecutive sample rows (the constructor reads the
\* first recipe of the catalog it kept, so a catalog has one)
Catalogs ==
    {ReadCsv(SubSeq(SampleRows, a, a + MaxCatalog - 1)) :
        a \in 1..(Len(SampleRows) - MaxCatalog + 1)}

\* three recipes that different conditions remove: the first is over the carbohydrate
\* ceilings, the second has an ingredient to avoid with high blood pressure, the third has
\* one to avoid with lactose intolerance
CrossRows ==
    << [Srno |-> 10, RecipeName |-> <<"B", "r", "o", "w", "n", " ", "R", "i", "c", "e", " ", "P", "u", "l", "a", "o">>, Cuisine |-> <<"I", "n", "d", "i", "a", "n">>,
        Diet |-> <<"G", "l", "u", "t", "e", "n", " ", "F", "r", "e", "e">>, Course |-> <<"M", "a", "i", "n", " ", "C", "o", "u", "r", "s", "e">>, TotalTimeInMins |-> 30,
        Ingredients |-> <<"B", "r", "o", "w", "n", " ", "r", "i", "c", "e", " ", "c", "a", "r", "r", "o", "t", " ", "p", "e", "a", "s">>,
        energy_per_serving |-> 310, protein_per_serving |-> 6, carbohydrate_per_serving |-> 60,
        fat_per_serving |-> 5, sodium_per_serving |-> 200],
       [Srno |-> 11, RecipeName |-> <<"R", "o", "a", "s", "t", "e", "d", " ", "P", "a", "p", "a", "d">>, Cuisine |-> <<"I", "n", "d", "i", "a", "n">>,
        Diet |-> <<"G", "l", "u", "t", "e", "n", " ", "F", "r", "e", "e">>, Course |-> <<"S", "n", "a", "c", "k">>, TotalTimeInMins |-> 10,
        Ingredients |-> <<"P", "a", "p", "a", "d", " ", "o", "n", "i", "o", "n", " ", "c", "h", "i", "l", "l", "i">>,
        energy_per_serving |-> 95, protein_per_serving |-> 5, carbohydrate_per_serving |-> 12,
        fat_per_serving |-> 3, sodium_per_serving |-> 400],
       [Srno |-> 12, RecipeName |-> <<"C", "u", "c", "u", "m", "b", "e", "r", " ", "R", "a", "i", "t", "a">>, Cuisine |-> <<"I", "n", "d", "i", "a", "n">>,
        Diet |-> <<"G", "l", "u", "t", "e", "n", " ", "F", "r", "e", "e">>, Course |-> <<"S", "i", "d", "e", " ", "D", "i", "s", "h">>, TotalTimeInMins |-> 10,
        Ingredients |-> <<"C", "u", "r", "d", " ", "c", "u", "c", "u", "m", "b", "e", "r", " ", "c", "u", "m", "i", "n">>,
        energy_per_serving |-> 90, protein_per_serving |-> 5, carbohydrate_per_serving |-> 8,
        fat_per_serving |-> 4, sodium_per_serving |-> 150] >>

\* three recipes of a catalog that also has the saturated fat, sugar, cholesterol and
\* potassium of a serving: each is within what the filter compares and over a ceiling it
\* does not compare
LabelledRows ==
    << [Srno |-> 13, RecipeName |-> <<"F", "r", "u", "i", "t", " ", "S", "a", "l", "a", "d">>, Cuisine |-> <<"C", "o", "n", "t", "i", "n", "e", "n", "t", "a", "l">>,
        Diet |-> <<"V", "e", "g", "a", "n">>, Course |-> <<"D", "e", "s", "s", "e", "r", "t">>, TotalTimeInMins |-> 10,
        Ingredients |-> <<"A", "p", "p", "l", "e", " ", "o", "r", "a", "n", "g", "e", " ", "g", "r", "a", "p", "e", "s">>,
        energy_per_serving |-> 180, protein_per_serving |-> 2, carbohydrate_per_serving |-> 40,
        fat_per_serving |-> 1, sodium_per_serving |-> 10,
        saturated_fat_per_serving |-> 0, sugar_per_serving |-> 30,
        cholesterol_per_serving |-> 0, potassium_per_serving |-> 150],
       [Srno |-> 14, RecipeName |-> <<"P", "a", "n", "e", "e", "r", " ", "T", "i", "k", "k", "a">>, Cuisine |-> <<"I", "n", "d", "i", "a", "n">>,
        Diet |-> <<"V", "e", "g", "e", "t", "a", "r", "i", "a", "n">>, Course |-> <<"A", "p", "p", "e", "t", "i", "z", "e", "r">>, TotalTimeInMins |-> 30,
        Ingredients |-> <<"P", "a", "n", "e", "e", "r", " ", "c", "a", "p", "s", "i", "c", "u", "m", " ", "o", "n", "i", "o", "n">>,
        energy_per_serving |-> 260, protein_per_serving |-> 14, carbohydrate_per_serving |-> 8,
        fat_per_serving |-> 12, sodium_per_serving |-> 300,
        saturated_fat_per_serving |-> 9, sugar_per_serving |-> 3,
        cholesterol_per_serving |-> 250, potassium_per_serving |-> 120],
       [Srno |-> 15, RecipeName |-> <<"S", "p", "i", "n", "a", "c", "h", " ", "S", "o", "u", "p">>, Cuisine |-> <<"C", "o", "n", "t", "i", "n", "e", "n", "t", "a", "l">>,
        Diet |-> <<"V", "e", "g", "a", "n">>, Course |-> <<"A", "p", "p", "e", "t", "i", "z", "e", "r">>, TotalTimeInMins |-> 20,
        Ingredients |-> <<"S", "p", "i", "n", "a", "c", "h", " ", "o", "n", "i", "o", "n", " ", "g", "a", "r", "l", "i", "c">>,
        energy_per_serving |-> 90, protein_per_serving |-> 5, carbohydrate_per_serving |-> 10,
        fat_per_serving |-> 3, sodium_per_serving |-> 200,
        saturated_fat_per_serving |-> 1, sugar_per_serving |-> 2,
        cholesterol_per_serving |-> 0, potassium_per_serving |-> 500] >>

\* the catalogs the medical filter is called on directly: those above, the whole sample,
\* the three recipes that different conditions remove and the three with every nutrient
FilterCatalogs == Catalogs \cup {ReadCsv(SampleRows), ReadCsv(CrossRows), ReadCsv(LabelledRows)}

\* user_targets as the API and the tests build them
TargetChoices ==
    { [course |-> <<"B", "r", "e", "a", "k", "f", "a", "s", "t">>, diet |-> <<"V", "e", "g", "e", "t", "a", "r", "i", "a", "n">>, max_time_mins |-> 45,
       calories |-> 400, protein_g |-> 20, carbs_g |-> 40, fat_g |-> 10],
      [course |-> <<"S", "n", "a", "c", "k", "|", "A", "p", "p", "e", "t", "i", "z", "e", "r", "|", "S", "i", "d", "e", " ", "D", "i", "s", "h">>, diet |-> <<"V", "e", "g", "a", "n">>, max_time |-> 60,
       calories |-> 360, protein_g |-> 9, carbs_g |-> 23, fat_g |-> 6],
      [course |-> <<"b", "r", "e", "a", "k", "f", "a", "s", "t">>, diet |-> <<" ", "N", "o", "n", "-", "V", "e", "g", "e", "t", "a", "r", "i", "a", "n">>, max_time |-> 30,
       calories |-> 0, protein_g |-> 0, carbs_g |-> 0, fat_g |-> 0],
      [course |-> <<"B", "r", "e", "a", "k", "f", "a", "s", "t">>, diet |-> <<"K", "e", "t", "o">>, max_time |-> 60,
       calories |-> 500, protein_g |-> 35, carbs_g |-> 45, fat_g |-> 17],
      [calories |-> 150, protein_g |-> 22, carbs_g |-> 120, fat_g |-> 3] }

\* the keys of MEDICAL_CONSTRAINTS, and one condition the table does not know
ConditionChoices == <<"diabetes", "pre_diabetes", "hypertension", "heart_disease",
                      "high_cholesterol", "kidney_disease", "celiac_disease",
                      "lactose_intolerance", "thyroid">>

\* increasing index lists of length at most n over lo..m
RECURSIVE IncreasingLists(_, _, _)
IncreasingLists(lo, m, n) ==
    IF n = 0 THEN {<<>>}
    ELSE {<<>>} \cup UNION {{<<i>> \o rest : rest \in IncreasingLists(i + 1, m, n - 1)} : i \in lo..m}

\* the condition lists handed to the medical filter: at most MaxConds of the choices
ConditionLists ==
    {[k \in 1..Len(l) |-> ConditionChoices[l[k]]] :
        l \in IncreasingLists(1, Len(ConditionChoices), MaxConds)}

\* the condition lists calculate_preference_bonus is called with: those above, and a list
\* that names one condition twice
BonusConditionLists == ConditionLists \cup {<<"diabetes", "diabetes">>}

\* the condition lists of a recommendation request
RequestConditionLists ==
    {<<>>, <<"hypertension">>, <<"heart_disease">>, <<"diabetes">>, <<"thyroid">>,
     <<"diabetes", "hypertension">>}

\* the diets of the requests of a user with celiac disease, as the user may write them
CeliacDiets == {<<"v", "e", "g", "e", "t", "a", "r", "i", "a", "n">>, <<"V", "e", "g", "a", "n">>, <<"N", "o", "n", "-", "V", "e", "g", "e", "t", "a", "r", "i", "a", "n">>, <<"e", "g", "g", "e", "t", "a", "r", "i", "a", "n">>}

\* the user_targets of those requests
CeliacTargets ==
    {[course |-> <<"B", "r", "e", "a", "k", "f", "a", "s", "t">>, diet |-> d, max_time_mins |-> 45,
      calories |-> 400, protein_g |-> 20, carbs_g |-> 40, fat_g |-> 10] : d \in CeliacDiets}
    \cup
    {[course |-> <<"S", "n", "a", "c", "k", "|", "A", "p", "p", "e", "t", "i", "z", "e", "r", "|", "S", "i", "d", "e", " ", "D", "i", "s", "h">>, diet |-> d, max_time |-> 60,
      calories |-> 360, protein_g |-> 9, carbs_g |-> 23, fat_g |-> 6] : d \in CeliacDiets}

\* the condition lists of those requests
CeliacConditionLists ==
    {<<"celiac_disease">>, <<"celiac_disease", "diabetes">>, <<"hypertension", "celiac_disease">>}

\* preferred_cuisines, disliked_ingredients and allergies of a request
PreferenceChoices ==
    {[cuisines |-> <<>>, dislikes |-> <<>>, allergies |-> <<>>],
     [cuisines |-> <<<<"I", "n", "d", "i", "a", "n">>>>, dislikes |-> <<>>, allergies |-> <<>>],
     [cuisines |-> <<<<"I", "t", "a", "l", "i", "a", "n">>>>, dislikes |-> <<>>, allergies |-> <<>>],
     [cuisines |-> <<<<"C", "o", "n", "t", "i", "n", "e", "n", "t", "a", "l">>>>, dislikes |-> <<>>, allergies |-> <<>>],
     [cuisines |-> <<<<"I", "t", "a", "l", "i", "a", "n">>>>, dislikes |-> <<<<"o", "n", "i", "o", "n">>>>, allergies |-> <<<<"P", "e", "a", "n", "u", "t">>>>],
     [cuisines |-> <<<<"I", "n", "d", "i", "a", "n">>>>, dislikes |-> <<<<"o", "n", "i", "o", "n">>>>, allergies |-> <<>>],
     [cuisines |-> <<<<"I", "t", "a", "l", "i", "a", "n">>>>, dislikes |-> <<>>, allergies |-> <<<<"b", "u", "t", "t", "e", "r">>, <<"e", "g", "g">>>>],
     [cuisines |-> <<>>, dislikes |-> <<>>, allergies |-> <<<<"P", "e", "a", "n", "u", "t">>>>]}

CuisineChoices == {p.cuisines : p \in PreferenceChoices}

\* rating data: users 1..MaxUsers, recipes keyed by Srno
MaxUsers == 3

MaxK == 2

UserIds == [i \in 1..MaxUsers |-> i]

RecipeIds == <<1, 2, 3, 4>>

\* one user's ratings of the four recipes (0: not rated)
RatingRows ==
    {<<1, 1, 1, 1>>, <<2, 0, 0, 0>>, <<4, 0, 0, 0>>, <<0, 0, 0, 5>>, <<0, 3, 0, 0>>, <<3, 3, 3, 3>>}

\* pivot_table keeps a recipe column only if somebody rated the recipe
RatingMatrices ==
    {m \in [1..MaxUsers -> RatingRows] :
        \A j \in DOMAIN RecipeIds : \E i \in 1..MaxUsers : m[i][j] # 0}

\* factor matrices with entries that are sums of a few powers of two
Half == Dec(5, 10)

SampleU(n) == [i \in 1..n |->
                  IF i % 3 = 1 THEN <<Half, Half>>
                  ELSE IF i % 3 = 2 THEN <<Half, FNeg(Half)>>
                  ELSE <<FNeg(Half), Dec(25, 100)>>]

SampleVt == << <<FromInt(1), FromInt(-1), Half, FZero>>,
               <<Half, FromInt(1), FromInt(-2), FromInt(1)>> >>

SigmaChoices == {<< <<FromInt(a), FZero>>, <<FZero, FromInt(b)>> >> : a \in {1, 4}, b \in {1, 2}}

UserMeanChoices == {[i \in 1..MaxUsers |-> Dec(35, 10)],
                    [i \in 1..MaxUsers |-> IF i % 2 = 1 THEN FromInt(2) ELSE FromInt(5)]}

SVDModels ==
    {SimpleSVD(SampleU(MaxUsers), sigma, SampleVt, means, UserIds, RecipeIds) :
        sigma \in SigmaChoices, means \in UserMeanChoices}

UserCFModels ==
    UNION {{SimpleUserCF(t.ratings, t.similarity, UserIds, RecipeIds, k) : k \in 1..MaxK} :
              t \in {Trained(m) : m \in RatingMatrices}}

\* ids asked of predict: the known ones and one the training data never saw
UnknownId == 9

AskedUsers == {UserIds[i] : i \in DOMAIN UserIds} \cup {UnknownId}

AskedRecipes == {RecipeIds[i] : i \in DOMAIN RecipeIds} \cup {UnknownId}

SampleRatings ==
    [i \in 1..MaxUsers |->
        IF i % 3 = 1 THEN <<1, 1, 1, 1>> ELSE IF i % 3 = 2 THEN <<2, 0, 0, 0>> ELSE <<0, 0, 0, 5>>]

\* what HybridRecommender.__init__ can end up with: no model, or either kind
Tier3Choices ==
    {NoModel,
     [has_tier3 |-> TRUE,
      tier3_model |-> SimpleSVD(SampleU(MaxUsers), << <<FromInt(4), FZero>>, <<FZero, FromInt(2)>> >>,
                                SampleVt, [i \in 1..MaxUsers |-> Dec(35, 10)], UserIds, RecipeIds)],
     [has_tier3 |-> TRUE,
      tier3_model |-> SimpleUserCF(SampleRatings, cosine_similarity(SampleRatings),
                                   UserIds, RecipeIds, MaxK)]}

\* the loaded user-based model
ScoringTier3Choices ==
    {t \in Tier3Choices : t.has_tier3 /\ "similarity_matrix" \in DOMAIN t.tier3_model}

\* the same, and a loaded object whose predict raises for the recipe with index label 1
HybridTier3Choices ==
    Tier3Choices \cup {[has_tier3 |-> TRUE, tier3_model |-> OtherModel({1}, FromInt(5))]}

\* request bodies of the hybrid endpoint
HybridRequests ==
    {[meal |-> <<"b", "r", "e", "a", "k", "f", "a", "s", "t">>, calories |-> 400, protein_g |-> 20, carbs_g |-> 40, fat_g |-> 10,
      user_id |-> 1, top_n |-> MaxTopN],
     [calories |-> 400, protein_g |-> 20, carbs_g |-> 40, fat_g |-> 10,
      medical_conditions |-> <<"diabetes">>],
     [meal |-> <<"s", "n", "a", "c", "k">>, diet |-> <<"V", "e", "g", "a", "n">>, protein_g |-> 9, carbs_g |-> 23, fat_g |-> 6]}

\* diet-engine inputs
AgeChoices == {25, 55}

WeightChoices == {45, 90}

HeightChoices == {150, 175}

GenderChoices == {<<"M">>, <<"F">>, <<"f">>}

\* genders handed to calculate_bmr directly, in either case
BmrGenderChoices == GenderChoices \cup {<<"m">>}

ActivityChoices == {"sedentary", "lightly_active", "moderately_active", "very_active",
                    "extra_active", "unknown"}

\* the BMR values handed to calculate_tdee: those calculate_bmr returns
BmrChoices ==
    {calculate_bmr(a, g, w, h) :
        a \in AgeChoices, g \in BmrGenderChoices, w \in WeightChoices, h \in HeightChoices}

GoalChoices == {"weight_loss", "muscle_gain", "maintenance"}

DietTypeChoices == {<<"V", "e", "g", "e", "t", "a", "r", "i", "a", "n">>, <<"V", "e", "g", "a", "n">>, <<"N", "o", "n", "-", "v", "e", "g", "e", "t", "a", "r", "i", "a", "n">>, <<"E", "g", "g", "e", "t", "a", "r", "i", "a", "n">>}

CalorieChoices == {1200, 1500, 2000, 2537}

MacroConditionChoices == <<"diabetes", "pre_diabetes", "kidney_disease", "heart_disease",
                           "high_cholesterol", "hypertension">>

MaxMacroConds == 3

MacroConditionLists ==
    {[k \in 1..Len(l) |-> MacroConditionChoices[l[k]]] :
        l \in IncreasingLists(1, Len(MacroConditionChoices), MaxMacroConds)}

PlanConditionLists == {<<>>, <<"diabetes", "hypertension">>}

CompleteProfiles ==
    {[age |-> a, gender |-> g, weight_kg |-> w, height_cm |-> h, activity_level |-> act,
      goal |-> goal, medical_conditions |-> conds, diet_type |-> <<"V", "e", "g", "e", "t", "a", "r", "i", "a", "n">>] :
        a \in AgeChoices, g \in GenderChoices, w \in WeightChoices, h \in HeightChoices,
        act \in ActivityChoices, goal \in GoalChoices, conds \in PlanConditionLists}

\* the test profiles of test_tier1.py
user1 == [age |-> 55, gender |-> <<"M">>, weight_kg |-> 90, height_cm |-> 175,
          activity_level |-> "sedentary", goal |-> "weight_loss",
          medical_conditions |-> <<"diabetes", "hypertension">>, diet_type |-> <<"V", "e", "g", "e", "t", "a", "r", "i", "a", "n">>]

user2 == [age |-> 25, gender |-> <<"M">>, weight_kg |-> 70, height_cm |-> 175,
          activity_level |-> "very_active", goal |-> "muscle_gain",
          medical_conditions |-> <<>>, diet_type |-> <<"N", "o", "n", " ", "V", "e", "g", "e", "t", "e", "r", "i", "a", "n">>]

user3 == [age |-> 30, gender |-> <<"F">>, weight_kg |-> 60, height_cm |-> 165,
          activity_level |-> "moderately_active", goal |-> "maintenance",
          medical_conditions |-> <<>>]

\* a profile with one key removed
Without(profile, key) == [k \in DOMAIN profile \ {key} |-> profile[k]]

IncompleteProfiles == {Without(user1, key) : key \in DOMAIN user1}

Profiles == CompleteProfiles \cup {user1, user2, user3} \cup IncompleteProfiles

\* request bodies of the plan endpoints: the test profiles, profiles with keys missing, and
\* profiles that carry preferences and time limits
With(profile, key, value) == [k \in DOMAIN profile \cup {key} |-> IF k = key THEN value ELSE profile[k]]

PlanRequests ==
    {user1, user2, user3} \cup IncompleteProfiles
    \cup {Without(user3, "medical_conditions"), Without(Without(user1, "age"), "goal"),
          With(user3, "diet_type", <<"V", "e", "g", "e", "t", "a", "r", "i", "a", "n">>),
          With(user1, "medical_conditions", <<>>),
          With(user3, "max_time_mins", [breakfast |-> 15]),
          With(user3, "preferred_cuisines", <<<<"I", "n", "d", "i", "a", "n">>>>),
          With(With(user3, "diet_type", <<"V", "e", "g", "a", "n">>), "allergies", <<<<"p", "e", "a", "n", "u", "t">>>>)}

\* the catalogs the threaded server is started on
ServerCatalogs ==
    {ReadCsv(SubSeq(SampleRows, a, a + MaxCatalog - 1)) : a \in {1, Len(SampleRows) - MaxCatalog + 1}}

\* the first catalog with the Ingredients cell of its second row empty: pd.read_csv reads
\* an empty cell as NaN
MissingCellCatalog ==
    ReadCsv([i \in 1..MaxCatalog |->
                IF i = 2 THEN [SampleRows[i] EXCEPT !.Ingredients = NA] ELSE SampleRows[i]])

\* the catalogs the endpoints are served from
StartCatalogs == ServerCatalogs \cup {MissingCellCatalog}

\* protein targets for analyze_protein_gap, as distances from the recipe's protein: inside
\* each band and on both sides of each bound
GapChoices == {-3, 0, 2, 3, 5, 6, 10, 11}

\* two breakfast recipes about equally far from the targets of the first request above,
\* one on the low side and one on the high side
CloseRows ==
    << [Srno |-> 8, RecipeName |-> <<"P", "a", "n", "e", "e", "r", " ", "B", "h", "u", "r", "j", "i">>, Cuisine |-> <<"I", "n", "d", "i", "a", "n">>,
        Diet |-> <<"V", "e", "g", "e", "t", "a", "r", "i", "a", "n">>, Course |-> <<"B", "r", "e", "a", "k", "f", "a", "s", "t">>, TotalTimeInMins |-> 15,
        Ingredients |-> <<"P", "a", "n", "e", "e", "r", " ", "o", "n", "i", "o", "n", " ", "t", "o", "m", "a", "t", "o">>,
        energy_per_serving |-> 110, protein_per_serving |-> 15, carbohydrate_per_serving |-> 5,
        fat_per_serving |-> 5, sodium_per_serving |-> 200],
       [Srno |-> 9, RecipeName |-> <<"P", "r", "o", "t", "e", "i", "n", " ", "O", "a", "t", "s", " ", "B", "o", "w", "l">>, Cuisine |-> <<"C", "o", "n", "t", "i", "n", "e", "n", "t", "a", "l">>,
        Diet |-> <<"V", "e", "g", "e", "t", "a", "r", "i", "a", "n">>, Course |-> <<"B", "r", "e", "a", "k", "f", "a", "s", "t">>, TotalTimeInMins |-> 10,
        Ingredients |-> <<"O", "a", "t", "s", " ", "m", "i", "l", "k", " ", "b", "a", "n", "a", "n", "a">>,
        energy_per_serving |-> 430, protein_per_serving |-> 36, carbohydrate_per_serving |-> 72,
        fat_per_serving |-> 6, sodium_per_serving |-> 150] >>

\* the number of recipes of the wide catalog: more than tier 2 hands to the blender
MaxWide == 52

\* breakfast recipes that pass the filters of the first request above, each a little
\* nearer to its calorie target than the one before it
FillerRows(n) ==
    [i \in 1..n |->
        [Srno |-> 100 + i, RecipeName |-> <<"S", "t", "u", "f", "f", "e", "d", " ", "P", "a", "r", "a", "t", "h", "a">>, Cuisine |-> <<"I", "n", "d", "i", "a", "n">>,
         Diet |-> <<"V", "e", "g", "e", "t", "a", "r", "i", "a", "n">>, Course |-> <<"B", "r", "e", "a", "k", "f", "a", "s", "t">>, TotalTimeInMins |-> 30,
         Ingredients |-> <<"W", "h", "o", "l", "e", " ", "w", "h", "e", "a", "t", " ", "f", "l", "o", "u", "r", " ", "p", "o", "t", "a", "t", "o", " ", "g", "h", "e", "e">>,
         energy_per_serving |-> 600 + (n + 1 - i), protein_per_serving |-> 7,
         carbohydrate_per_serving |-> 40 + 20, fat_per_serving |-> 15,
         sodium_per_serving |-> 300]]

\* the wide catalog: the recipes above, then the two that are about equally far
WideRows == FillerRows(MaxWide - Len(CloseRows)) \o CloseRows

\* the catalogs of the runs on many candidates: the two close recipes alone, and the wide one
WideCatalogs == {ReadCsv(CloseRows), ReadCsv(WideRows)}

\* the user_targets of those runs: the first request above, and the same with more calories
WideTargets ==
    {[course |-> <<"B", "r", "e", "a", "k", "f", "a", "s", "t">>, diet |-> <<"V", "e", "g", "e", "t", "a", "r", "i", "a", "n">>, max_time_mins |-> 45,
      calories |-> calories, protein_g |-> 20, carbs_g |-> 40, fat_g |-> 10] :
        calories \in {400, 700}}

\* top_n of those runs: fewer than tier 2 hands over, as many, and more
WideTopNChoices == {1, MaxTopN, TIER2_TOP_N, TIER2_TOP_N + 1}

\* the condition lists of those runs
WideConditionLists == {<<>>, <<"hypertension">>}

\* the users of those runs: one the model knows, and none
WideUsers == {1, NoUser}

\* the loaded objects of those runs: none, and the user-based model
WideTier3Choices == {NoModel} \cup ScoringTier3Choices

\* the requests the threaded server is sent
ServerRequests ==
    {[endpoint |-> "recommend-hybrid", data |-> data] : data \in HybridRequests}
    \cup {[endpoint |-> "complete-meal-plan", data |-> data] :
              data \in {user1, Without(user1, "goal")}}

\* ------------------------------------------------------------------------
\* The threaded server before its first request
\* ------------------------------------------------------------------------
\* the request threads
Threads == {"t1", "t2"}

\* a thread with no request
Waiting == [at |-> "waiting"]

\* the name hybrid_recommender is not among the globals
Unset == 0

\* no catalog: what a process holds whose recipe_recommender is None
NoCatalog == <<>>

\* app.py 54-61: recipe_recommender is the recommender over the catalog read, or None when
\* read_csv or the constructor raised; no request has come yet
ServerStart ==
    /\ recipe_recommender = IF recipes = NoCatalog THEN "None" ELSE "loaded"
    /\ hybrid_recommender = Unset
    /\ built = 0
    /\ threads = [t \in Threads |-> Waiting]
    /\ loaded = [recipes |-> recipes, tier3 |-> tier3]

\* ------------------------------------------------------------------------
\* The recommender serving requests against its catalog
\* ------------------------------------------------------------------------
\* MedicalAwareRecipeRecommender.__init__ on one of the catalogs, and what
\* HybridRecommender.__init__ got from joblib.load
Init ==
    /\ recipes \in {preprocess_recipes(c) : c \in Catalogs}
    /\ tier3 \in Tier3Choices
    /\ call = Idle
    /\ ret = Idle
    /\ trace = NoTrace
    /\ empties = {}
    /\ ServerStart

\* a direct call of filter_by_medical_constraints on the catalog
FilterMedical ==
    /\ call = Idle
    /\ \E conds \in ConditionLists :
          /\ call' = [op |-> "filter_by_medical_constraints", medical_conditions |-> conds]
          /\ ret' = filter_by_medical_constraints(recipes, conds)
    /\ trace' = NoTrace
    /\ UNCHANGED <<recipes, tier3, empties, server>>

\* a call of recommend
Recommend ==
    /\ call = Idle
    /\ \E t \in TargetChoices, conds \in RequestConditionLists, p \in PreferenceChoices,
          top_n \in TopNChoices :
          \E run \in {RecommendRun(recipes, t, conds, p.cuisines, p.dislikes, p.allergies, top_n)} :
              /\ call' = [op |-> "recommend", user_targets |-> t, medical_conditions |-> conds,
                          preferred_cuisines |-> p.cuisines, disliked_ingredients |-> p.dislikes,
                          allergies |-> p.allergies, top_n |-> top_n]
              /\ ret' \in run.tables
              /\ trace' = [op |-> "recommend", preference_calls |-> run.preference_calls,
                           cause |-> run.cause]
    /\ UNCHANGED <<recipes, tier3, empties, server>>

\* a call of recommend_hybrid
RecommendHybrid ==
    /\ call = Idle
    /\ \E user_id \in AskedUsers \cup {NoUser}, t \in TargetChoices,
          conds \in RequestConditionLists, top_n \in TopNChoices :
          \E run \in {HybridRun(recipes, tier3, user_id, t, conds, top_n)} :
              /\ call' = [op |-> "recommend_hybrid", user_id |-> user_id, user_targets |-> t,
                          medical_conditions |-> conds, top_n |-> top_n]
              /\ ret' \in run.tables
              /\ trace' = [op |-> "recommend", preference_calls |-> run.preference_calls,
                           cause |-> run.cause, predict_calls |-> run.predict_calls]
    /\ UNCHANGED <<recipes, tier3, empties, server>>

\* a direct call of calculate_preference_bonus on a recipe of the catalog, as it is or
\* with its Ingredients cell missing
CalculatePreferenceBonus ==
    /\ call = Idle
    /\ \E i \in DOMAIN recipes, conds \in BonusConditionLists, cell \in {"text", "missing"} :
          \E recipe \in {IF cell = "missing" THEN [recipes[i] EXCEPT !.Ingredients = NA]
                         ELSE recipes[i]} :
              /\ call' = [op |-> "calculate_preference_bonus", recipe |-> recipe,
                          medical_conditions |-> conds]
              /\ ret' = calculate_preference_bonus(recipe, conds)
    /\ trace' = NoTrace
    /\ UNCHANGED <<recipes, tier3, empties, server>>

\* a direct call of analyze_protein_gap on a recipe of the catalog
AnalyzeProteinGap ==
    /\ call = Idle
    /\ \E i \in DOMAIN recipes, gap \in GapChoices :
          /\ recipes[i].protein_per_serving + gap >= 0
          /\ call' = [op |-> "analyze_protein_gap", recipe |-> recipes[i],
                      target_protein |-> recipes[i].protein_per_serving + gap]
          /\ ret' = analyze_protein_gap(recipes[i], recipes[i].protein_per_serving + gap)
    /\ trace' = NoTrace
    /\ UNCHANGED <<recipes, tier3, empties, server>>

\* the response is produced and the request's values are discarded
Discard ==
    /\ call # Idle
    /\ call' = Idle
    /\ ret' = Idle
    /\ trace' = NoTrace
    /\ UNCHANGED <<recipes, tier3, empties, server>>

Next == FilterMedical \/ Recommend \/ RecommendHybrid \/ Discard

Spec == Init /\ [][Next]_vars

\* ------------------------------------------------------------------------
\* The medical filter called directly on the catalog
\* ------------------------------------------------------------------------
InitFilter ==
    /\ recipes \in {preprocess_recipes(c) : c \in FilterCatalogs}
    /\ tier3 = NoModel
    /\ call = Idle
    /\ ret = Idle
    /\ trace = NoTrace
    /\ empties = {}
    /\ ServerStart

NextFilter == FilterMedical \/ Discard

SpecFilter == InitFilter /\ [][NextFilter]_vars

\* ------------------------------------------------------------------------
\* Scoring and ranking: the recommenders and the two scoring methods called directly,
\* with the user-based model loaded
\* ------------------------------------------------------------------------
InitScoring ==
    /\ recipes \in {preprocess_recipes(c) : c \in Catalogs}
    /\ tier3 \in ScoringTier3Choices
    /\ call = Idle
    /\ ret = Idle
    /\ trace = NoTrace
    /\ empties = {}
    /\ ServerStart

NextScoring == Recommend \/ RecommendHybrid \/ CalculatePreferenceBonus
                  \/ AnalyzeProteinGap \/ Discard

SpecScoring == InitScoring /\ [][NextScoring]_vars

\* ------------------------------------------------------------------------
\* The hybrid recommender with every kind of loaded object
\* ------------------------------------------------------------------------
InitHybrid ==
    /\ recipes \in {preprocess_recipes(c) : c \in Catalogs \cup {MissingCellCatalog}}
    /\ tier3 \in HybridTier3Choices
    /\ call = Idle
    /\ ret = Idle
    /\ trace = NoTrace
    /\ empties = {}
    /\ ServerStart

NextHybrid == RecommendHybrid \/ Discard

SpecHybrid == InitHybrid /\ [][NextHybrid]_vars

\* ------------------------------------------------------------------------
\* recommend for users with celiac disease
\* ------------------------------------------------------------------------
InitCeliac ==
    /\ recipes \in {preprocess_recipes(c) : c \in FilterCatalogs}
    /\ tier3 = NoModel
    /\ call = Idle
    /\ ret = Idle
    /\ trace = NoTrace
    /\ empties = {}
    /\ ServerStart

\* a call of recommend with celiac_disease among the conditions
RecommendCeliac ==
    /\ call = Idle
    /\ \E t \in CeliacTargets, conds \in CeliacConditionLists, p \in PreferenceChoices,
          top_n \in TopNChoices :
          \E run \in {RecommendRun(recipes, t, conds, p.cuisines, p.dislikes, p.allergies, top_n)} :
              /\ call' = [op |-> "recommend", user_targets |-> t, medical_conditions |-> conds,
                          preferred_cuisines |-> p.cuisines, disliked_ingredients |-> p.dislikes,
                          allergies |-> p.allergies, top_n |-> top_n]
              /\ ret' \in run.tables
              /\ trace' = [op |-> "recommend", preference_calls |-> run.preference_calls,
                           cause |-> run.cause]
    /\ UNCHANGED <<recipes, tier3, empties, server>>

NextCeliac == RecommendCeliac \/ Discard

SpecCeliac == InitCeliac /\ [][NextCeliac]_vars

\* ------------------------------------------------------------------------
\* The two recommenders on many candidates
\* ------------------------------------------------------------------------
InitWide ==
    /\ recipes \in {preprocess_recipes(c) : c \in WideCatalogs}
    /\ tier3 \in WideTier3Choices
    /\ call = Idle
    /\ ret = Idle
    /\ trace = NoTrace
    /\ empties = {}
    /\ ServerStart

\* a call of recommend without preferences
RecommendWide ==
    /\ call = Idle
    /\ \E t \in WideTargets, conds \in WideConditionLists, top_n \in WideTopNChoices :
          \E run \in {RecommendRun(recipes, t, conds, <<>>, <<>>, <<>>, top_n)} :
              /\ call' = [op |-> "recommend", user_targets |-> t, medical_conditions |-> conds,
                          preferred_cuisines |-> <<>>, disliked_ingredients |-> <<>>,
                          allergies |-> <<>>, top_n |-> top_n]
              /\ ret' \in run.tables
              /\ trace' = [op |-> "recommend", preference_calls |-> run.preference_calls,
                           cause |-> run.cause]
    /\ UNCHANGED <<recipes, tier3, empties, server>>

\* a call of recommend_hybrid
RecommendHybridWide ==
    /\ call = Idle
    /\ \E user_id \in WideUsers, t \in WideTargets, conds \in WideConditionLists,
          top_n \in WideTopNChoices :
          \E run \in {HybridRun(recipes, tier3, user_id, t, conds, top_n)} :
              /\ call' = [op |-> "recommend_hybrid", user_id |-> user_id, user_targets |-> t,
                          medical_conditions |-> conds, top_n |-> top_n]
              /\ ret' \in run.tables
              /\ trace' = [op |-> "recommend", preference_calls |-> run.preference_calls,
                           cause |-> run.cause, predict_calls |-> run.predict_calls]
    /\ UNCHANGED <<recipes, tier3, empties, server>>

NextWide == RecommendWide \/ RecommendHybridWide \/ Discard

SpecWide == InitWide /\ [][NextWide]_vars

\* ------------------------------------------------------------------------
\* recommend_with_display, with the empty results it has returned remembered
\* ------------------------------------------------------------------------
RecommendWithDisplay ==
    /\ call = Idle
    /\ \E t \in TargetChoices, conds \in RequestConditionLists, cuisines \in CuisineChoices :
          \E run \in {RecommendRun(recipes, t, conds, cuisines, <<>>, <<>>, MaxTopN)} :
              /\ call' = [op |-> "recommend_with_display", user_targets |-> t,
                          medical_conditions |-> conds, preferred_cuisines |-> cuisines,
                          disliked_ingredients |-> <<>>, allergies |-> <<>>, top_n |-> MaxTopN]
              /\ \E recommendations \in run.tables :
                    ret' = recommend_with_display(recommendations, conds)
              /\ trace' = [op |-> "recommend", preference_calls |-> run.preference_calls,
                           cause |-> run.cause]
    /\ empties' = IF Len(ret'.recommendations) = 0
                  THEN empties \cup {[cause |-> trace'.cause, text |-> ret'.text,
                                      recommendations |-> ret'.recommendations]}
                  ELSE empties
    /\ UNCHANGED <<recipes, tier3, server>>

NextDisplay == RecommendWithDisplay \/ Discard

SpecDisplay == Init /\ [][NextDisplay]_vars

\* ------------------------------------------------------------------------
\* The collaborative models answering predictions
\* ------------------------------------------------------------------------
InitCF ==
    /\ recipes = <<>>
    /\ tier3 \in {[has_tier3 |-> TRUE, tier3_model |-> m] : m \in SVDModels \cup UserCFModels}
    /\ call = Idle
    /\ ret = Idle
    /\ trace = NoTrace
    /\ empties = {}
    /\ ServerStart

Predict ==
    /\ call = Idle
    /\ \E user_id \in AskedUsers, recipe_id \in AskedRecipes :
          /\ call' = [op |-> "predict", user_id |-> user_id, recipe_id |-> recipe_id]
          /\ \E similar_users \in NeighbourOrders(tier3.tier3_model, user_id) :
                /\ ret' = predict(tier3.tier3_model, similar_users, user_id, recipe_id)
                /\ trace' = [op |-> "predict", similar_users |-> similar_users]
    /\ UNCHANGED <<recipes, tier3, empties, server>>

NextCF == Predict \/ Discard

SpecCF == InitCF /\ [][NextCF]_vars

\* ------------------------------------------------------------------------
\* The diet engine computing targets
\* ------------------------------------------------------------------------
InitDiet ==
    /\ recipes = <<>>
    /\ tier3 = NoModel
    /\ call = Idle
    /\ ret = Idle
    /\ trace = NoTrace
    /\ empties = {}
    /\ ServerStart

CalculateBmr ==
    /\ call = Idle
    /\ \E age \in AgeChoices, gender \in BmrGenderChoices, weight_kg \in WeightChoices,
          height_cm \in HeightChoices :
          /\ call' = [op |-> "calculate_bmr", age |-> age, gender |-> gender,
                      weight_kg |-> weight_kg, height_cm |-> height_cm]
          /\ ret' = calculate_bmr(age, gender, weight_kg, height_cm)
    /\ trace' = NoTrace
    /\ UNCHANGED <<recipes, tier3, empties, server>>

CalculateTdee ==
    /\ call = Idle
    /\ \E bmr \in BmrChoices, activity_level \in ActivityChoices :
          /\ call' = [op |-> "calculate_tdee", bmr |-> bmr, activity_level |-> activity_level]
          /\ ret' = calculate_tdee(bmr, activity_level)
    /\ trace' = NoTrace
    /\ UNCHANGED <<recipes, tier3, empties, server>>

CalculateMacros ==
    /\ call = Idle
    /\ \E target_calories \in CalorieChoices, goal \in GoalChoices,
          conds \in MacroConditionLists, diet_type \in DietTypeChoices :
          /\ call' = [op |-> "calculate_macros", target_calories |-> target_calories,
                      goal |-> goal, medical_conditions |-> conds, diet_type |-> diet_type]
          /\ ret' = calculate_macros(target_calories, goal, conds, diet_type)
          /\ trace' = [op |-> "calculate_macros", pct |-> FinalPct(goal, conds, diet_type)]
    /\ UNCHANGED <<recipes, tier3, empties, server>>

GeneratePlan ==
    /\ call = Idle
    /\ \E profile \in Profiles :
          /\ call' = [op |-> "generate_personalized_plan", user_profile |-> profile]
          /\ ret' = generate_personalized_plan(profile)
    /\ trace' = NoTrace
    /\ UNCHANGED <<recipes, tier3, empties, server>>

NextDiet == CalculateBmr \/ CalculateTdee \/ CalculateMacros \/ GeneratePlan \/ Discard

SpecDiet == InitDiet /\ [][NextDiet]_vars

\* ------------------------------------------------------------------------
\* The application serving its endpoints, and the engine called directly
\* ------------------------------------------------------------------------
CalculateDietPlan ==
    /\ call = Idle
    /\ \E user_profile \in PlanRequests :
          /\ call' = [op |-> "calculate_diet_plan", user_profile |-> user_profile]
          /\ ret' = calculate_diet_plan(user_profile)
    /\ trace' = NoTrace
    /\ UNCHANGED <<recipes, tier3, empties, server>>

CompleteMealPlan ==
    /\ call = Idle
    /\ \E user_profile \in PlanRequests :
          /\ call' = [op |-> "complete_meal_plan", user_profile |-> user_profile]
          /\ IF recipe_recommender = "None"
             THEN /\ ret' = RecommenderNotLoaded
                  /\ trace' = [op |-> "complete_meal_plan"]
             ELSE \E nutrition_plan \in {generate_personalized_plan(user_profile)} :
                      IF nutrition_plan.status = "KeyError"
                      THEN /\ ret' = PlanResponse(nutrition_plan)
                           /\ trace' = MealTargetsPrinted(user_profile, nutrition_plan, 0)
                      ELSE \E tables \in TableChoices(recipes, user_profile,
                                                      nutrition_plan.meal_breakdown, 1) :
                               /\ ret' = MealPlanAfterLoop(user_profile, nutrition_plan, tables)
                               /\ trace' = MealTargetsPrinted(user_profile, nutrition_plan,
                                                              Len(tables))
    /\ UNCHANGED <<recipes, tier3, empties, server>>

EnginePlan ==
    /\ call = Idle
    /\ \E user_profile \in PlanRequests :
          /\ call' = [op |-> "generate_personalized_plan", user_profile |-> user_profile]
          /\ ret' = generate_personalized_plan(user_profile)
    /\ trace' = NoTrace
    /\ UNCHANGED <<recipes, tier3, empties, server>>

NextApp == CalculateDietPlan \/ CompleteMealPlan \/ EnginePlan \/ Discard

SpecApp == Init /\ [][NextApp]_vars

\* ------------------------------------------------------------------------
\* The plans of the engine and the meal plans built from them
\* ------------------------------------------------------------------------
InitMeals ==
    /\ recipes \in {preprocess_recipes(c) : c \in StartCatalogs} \cup {NoCatalog}
    /\ tier3 = NoModel
    /\ call = Idle
    /\ ret = Idle
    /\ trace = NoTrace
    /\ empties = {}
    /\ ServerStart

NextMeals == GeneratePlan \/ CompleteMealPlan \/ Discard

SpecMeals == InitMeals /\ [][NextMeals]_vars

\* ------------------------------------------------------------------------
\* The endpoints served by concurrent threads: each handler in its steps
\* ------------------------------------------------------------------------
\* the thread of a request with its response
Responding(request, response) ==
    [at |-> "respond", endpoint |-> request.endpoint, data |-> request.data, response |-> response]

\* the thread with the objects, of those held since the start, that its request has
\* written into
Wrote(thread, objects) ==
    [c \in DOMAIN thread \cup {"written"} |-> IF c = "written" THEN objects ELSE thread[c]]

\* a request reaches a thread
Receive(t) ==
    /\ threads[t] = Waiting
    /\ \E request \in ServerRequests :
          threads' = [threads EXCEPT ![t] =
                         [at       |-> IF request.endpoint = "recommend-hybrid" THEN "check" ELSE "plan",
                          endpoint |-> request.endpoint,
                          data     |-> request.data]]
    /\ UNCHANGED <<recipes, tier3, call, ret, trace, empties, hybrid_recommender, built, loaded,
                   recipe_recommender>>

\* recommend_hybrid: if 'hybrid_recommender' not in globals()
Check(t) ==
    /\ threads[t].at = "check"
    /\ threads' = [threads EXCEPT ![t].at = IF hybrid_recommender = Unset THEN "construct"
                                            ELSE "call"]
    /\ UNCHANGED <<recipes, tier3, call, ret, trace, empties, hybrid_recommender, built, loaded,
                   recipe_recommender>>

\* recommend_hybrid: hybrid_recommender = HybridRecommender(recipes_df); when the catalog
\* could not be loaded this raises as it did at the start, and the handler answers that
Construct(t) ==
    /\ threads[t].at = "construct"
    /\ IF recipe_recommender = "None"
       THEN /\ threads' = [threads EXCEPT ![t] = Responding(threads[t], HybridNotAvailable)]
            /\ UNCHANGED <<built, hybrid_recommender>>
       ELSE /\ built' = built + 1
            /\ hybrid_recommender' = built + 1
            /\ threads' = [threads EXCEPT ![t].at = "call"]
    /\ UNCHANGED <<recipes, tier3, call, ret, trace, empties, loaded, recipe_recommender>>

\* recommend_hybrid: the rest of the handler, on the instance the global refers to now
CallHybrid(t) ==
    /\ threads[t].at = "call"
    /\ \E h \in {Execute(Start, statements) :
                    statements \in HybridEndpointStatements(recipes, tier3, threads[t].data)} :
          /\ \E response \in hybrid_endpoint(recipes, tier3, threads[t].data) :
                 threads' = [threads EXCEPT ![t] =
                                [c \in {"at", "endpoint", "data", "response", "instance", "written"} |->
                                    IF c = "instance" THEN hybrid_recommender
                                    ELSE IF c = "written" THEN SharedWritten(h)
                                    ELSE Responding(threads[t], response)[c]]]
          /\ recipes' = RecipesAfter(recipes, h)
          /\ tier3' = Tier3After(tier3, h)
    /\ UNCHANGED <<call, ret, trace, empties, hybrid_recommender, built, loaded,
                   recipe_recommender>>

\* complete_meal_plan up to the nutrition plan
PlanStep(t) ==
    /\ threads[t].at = "plan"
    /\ \E nutrition_plan \in {generate_personalized_plan(threads[t].data)} :
          threads' = [threads EXCEPT ![t] =
                         IF recipe_recommender = "None"
                         THEN Responding(threads[t], RecommenderNotLoaded)
                         ELSE IF nutrition_plan.status = "KeyError"
                         THEN Responding(threads[t], PlanResponse(nutrition_plan))
                         ELSE [at |-> "meals", endpoint |-> threads[t].endpoint,
                               data |-> threads[t].data, nutrition_plan |-> nutrition_plan,
                               tables |-> <<>>, written |-> {}]]
    /\ UNCHANGED <<recipes, tier3, call, ret, trace, empties, hybrid_recommender, built, loaded,
                   recipe_recommender>>

\* complete_meal_plan: one round of the loop over the meals, and the response after the last
MealStep(t) ==
    /\ threads[t].at = "meals"
    /\ \E h \in {Execute(Start, MealStatements(recipes, threads[t].data,
                                               threads[t].nutrition_plan.meal_breakdown,
                                               meals[Len(threads[t].tables) + 1]))} :
          /\ \E table \in MealRecommend(recipes, threads[t].data,
                                         threads[t].nutrition_plan.meal_breakdown,
                                         meals[Len(threads[t].tables) + 1]) :
                 \E tables \in {Append(threads[t].tables, table)} :
                     threads' = [threads EXCEPT ![t] =
                                    IF table = RecommendRaised
                                    THEN Wrote(Responding(threads[t], MealPlanError(AttributeErrorText)),
                                               threads[t].written \cup SharedWritten(h))
                                    ELSE IF Len(tables) = Len(meals)
                                    THEN Wrote(Responding(threads[t],
                                                   MealPlanResponse(threads[t].data,
                                                                    threads[t].nutrition_plan,
                                                                    MealPlansByKey(tables))),
                                               threads[t].written \cup SharedWritten(h))
                                    ELSE [threads[t] EXCEPT !.tables = tables,
                                                            !.written = @ \cup SharedWritten(h)]]
          /\ recipes' = RecipesAfter(recipes, h)
          /\ tier3' = Tier3After(tier3, h)
    /\ UNCHANGED <<call, ret, trace, empties, hybrid_recommender, built, loaded,
                   recipe_recommender>>

\* the response leaves and the request's values are discarded
Respond(t) ==
    /\ threads[t].at = "respond"
    /\ threads' = [threads EXCEPT ![t] = Waiting]
    /\ UNCHANGED <<recipes, tier3, call, ret, trace, empties, hybrid_recommender, built, loaded,
                   recipe_recommender>>

NextServer ==
    \E t \in Threads : \/ Receive(t)
                        \/ Check(t)
                        \/ Construct(t)
                        \/ CallHybrid(t)
                        \/ PlanStep(t)
                        \/ MealStep(t)
                        \/ Respond(t)

\* the catalogs and collaborative models the server is started with: the first and the last
\* of the catalogs and no catalog under every model, the catalog with a missing cell without
\* a model
ServerStarts ==
    (({preprocess_recipes(c) : c \in ServerCatalogs} \cup {NoCatalog}) \X Tier3Choices)
    \cup {<<preprocess_recipes(MissingCellCatalog), NoModel>>}

InitServer ==
    /\ \E start \in ServerStarts :
           /\ recipes = start[1]
           /\ tier3 = start[2]
    /\ call = Idle
    /\ ret = Idle
    /\ trace = NoTrace
    /\ empties = {}
    /\ ServerStart

SpecServer == InitServer /\ [][NextServer]_vars

\* ------------------------------------------------------------------------
\* Properties
\* ------------------------------------------------------------------------
\* the catalog row a returned row came from (rows keep their index label)
CatalogRow(label) == recipes[CHOOSE j \in DOMAIN recipes : recipes[j].idx = label]

IsRecommendation == call.op \in {"recommend", "recommend_hybrid"}

\* a listed condition that the constraint table knows
Known(conds) == {conds[k] : k \in {j \in DOMAIN conds : conds[j] \in DOMAIN MEDICAL_CONSTRAINTS}}

\* the column that carries the nutrient of each ceiling of MEDICAL_CONSTRAINTS
CeilingColumn ==
    [max_sodium_per_serving        |-> "sodium_per_serving",
     max_carbs_per_serving         |-> "carbohydrate_per_serving",
     max_protein_per_serving       |-> "protein_per_serving",
     max_saturated_fat_per_serving |-> "saturated_fat_per_serving",
     max_sugar_per_serving         |-> "sugar_per_serving",
     max_cholesterol_per_serving   |-> "cholesterol_per_serving",
     max_potassium_per_serving     |-> "potassium_per_serving"]

\* the ceilings a condition configures
CeilingsOf(cond) == DOMAIN MEDICAL_CONSTRAINTS[cond] \cap DOMAIN CeilingColumn

\* C1: after filter_by_medical_constraints no surviving recipe exceeds a numeric
\* per-serving ceiling configured for a listed condition, whichever nutrient the ceiling
\* is for (a recipe without a value for the nutrient exceeds nothing); in particular no
\* recipe with sodium_per_serving > 600 survives 'hypertension'.
C1_ConfiguredCeilings ==
    call.op = "filter_by_medical_constraints" =>
        /\ \A i \in DOMAIN ret : \A cond \in Known(call.medical_conditions) :
              \A ceiling \in CeilingsOf(cond) :
                  CeilingColumn[ceiling] \in DOMAIN ret[i] =>
                      ret[i][CeilingColumn[ceiling]] <= MEDICAL_CONSTRAINTS[cond][ceiling]
        /\ InList("hypertension", call.medical_conditions) =>
              \A i \in DOMAIN ret : ret[i].sodium_per_serving <= 600

\* the medical filter keeps this one catalog row under these conditions
MedicallyKept(row, conds) == Len(filter_by_medical_constraints(<<row>>, conds)) = 1

\* C2: the medical filter is never relaxed: every recipe that recommend or
\* recommend_hybrid returns is one that filter_by_medical_constraints keeps for the
\* requested conditions (under 'hypertension' none has more than 600 mg of sodium),
\* and when the medical filter empties the candidates the result is empty.
C2_MedicalNeverRelaxed ==
    IsRecommendation =>
        /\ \A i \in DOMAIN ret :
              /\ MedicallyKept(CatalogRow(ret[i].idx), call.medical_conditions)
              /\ InList("hypertension", call.medical_conditions) =>
                     ret[i].sodium_per_serving <= 600
        /\ trace.cause = "medical" => ret = <<>>

\* C2 is exercised: a hybrid request with conditions returned recipes while the
\* catalog held a recipe that passes the request's other filters and fails the
\* medical one
C2_MedicalDropped ==
    /\ call.op = "recommend_hybrid"
    /\ call.medical_conditions # <<>>
    /\ ret # <<>>
    /\ \E j \in DOMAIN recipes :
          /\ Len(BasicFilter(<<recipes[j]>>, call.user_targets, FALSE)) = 1
          /\ ~MedicallyKept(recipes[j], call.medical_conditions)

\* allergen, lower-cased, is a substring of the lower-cased text
Mentions(text, allergen) == Contains(Lower(text), Lower(allergen))

\* C3: for a call of recommend with allergies, no returned recipe has a listed
\* allergen as a case-insensitive substring of its RecipeName or Ingredients,
\* whether or not the retry ran.
C3_AllergenNeverDropped ==
    call.op = "recommend" =>
        \A i \in DOMAIN ret : \A a \in DOMAIN call.allergies :
            /\ ~Mentions(ret[i].RecipeName, call.allergies[a])
            /\ ~Mentions(CatalogRow(ret[i].idx).Ingredients, call.allergies[a])

\* C3 is exercised: the retry ran on a request with allergies, recipes came back,
\* and the catalog held a recipe mentioning one of the allergens
C3_RetryWithAllergies ==
    /\ call.op = "recommend"
    /\ call.allergies # <<>>
    /\ Len(trace.preference_calls) = 2
    /\ ret # <<>>
    /\ \E j \in DOMAIN recipes : \E a \in DOMAIN call.allergies :
          Mentions(recipes[j].Ingredients, call.allergies[a])

\* C4: recommend applies the full preference set first; exactly when that leaves
\* nothing it retries once, with preferred_cuisines dropped and the dislikes and
\* allergies as given; no call keeps the cuisines while dropping a dislike, and no
\* returned recipe mentions a disliked ingredient.
C4_RelaxationOrder ==
    call.op = "recommend" =>
        LET calls == trace.preference_calls
            first == FirstPass(recipes, call.user_targets, call.preferred_cuisines,
                               call.disliked_ingredients, call.allergies)
        IN  /\ Len(calls) \in {1, 2}
            /\ calls[1] = [preferred_cuisines   |-> call.preferred_cuisines,
                           disliked_ingredients |-> call.disliked_ingredients,
                           allergies            |-> call.allergies]
            /\ Len(calls) = 2 <=> Len(first) = 0
            /\ Len(calls) = 2 =>
                   calls[2] = [preferred_cuisines   |-> <<>>,
                               disliked_ingredients |-> call.disliked_ingredients,
                               allergies            |-> call.allergies]
            /\ \A k \in DOMAIN calls :
                   calls[k].disliked_ingredients # call.disliked_ingredients =>
                       calls[k].preferred_cuisines = <<>>
            /\ \A i \in DOMAIN ret : \A d \in DOMAIN call.disliked_ingredients :
                   /\ ~Mentions(ret[i].RecipeName, call.disliked_ingredients[d])
                   /\ ~Mentions(CatalogRow(ret[i].idx).Ingredients, call.disliked_ingredients[d])

\* C4 is exercised: a request with a cuisine and a dislike was retried and
\* recipes came back, while the catalog held a recipe with the disliked ingredient
C4_Retried ==
    /\ call.op = "recommend"
    /\ call.preferred_cuisines # <<>>
    /\ call.disliked_ingredients # <<>>
    /\ Len(trace.preference_calls) = 2
    /\ ret # <<>>
    /\ \E j \in DOMAIN recipes : \E d \in DOMAIN call.disliked_ingredients :
          Mentions(recipes[j].Ingredients, call.disliked_ingredients[d])

\* C5 (as stated): an empty result of recommend tells 'emptied by the medical
\* constraint' from 'emptied by the preferences after the retry': two empty
\* results with different causes differ in the table or in the text returned.
C5_EmptyWithReason ==
    \A a \in empties : \A b \in empties :
        a.cause # b.cause => (a.recommendations # b.recommendations \/ a.text # b.text)

InUnitRange(x) == FGe(x, FZero) /\ FLe(x, FromInt(100))

\* C6: every match_score that recommend attaches lies in [0, 100], and so does the
\* base score of calculate_match_score for the recipe and the request's targets,
\* each axis deviation in it being at most 2.0.
C6_MatchScoreRange ==
    IsRecommendation =>
        \A i \in DOMAIN ret :
            /\ InUnitRange(ret[i].match_score)
            /\ InUnitRange(calculate_match_score(CatalogRow(ret[i].idx), call.user_targets))
            /\ FLe(AxisDiff(ret[i].energy_per_serving, call.user_targets.calories), FromInt(2))
            /\ FLe(AxisDiff(ret[i].protein_per_serving, call.user_targets.protein_g), FromInt(2))
            /\ FLe(AxisDiff(ret[i].carbohydrate_per_serving, call.user_targets.carbs_g), FromInt(2))
            /\ FLe(AxisDiff(ret[i].fat_per_serving, call.user_targets.fat_g), FromInt(2))

\* C6 is exercised: a returned recipe's score with its bonus passed 100 and was
\* capped at 100
C6_Capped ==
    /\ call.op = "recommend"
    /\ call.medical_conditions # <<>>
    /\ \E i \in DOMAIN ret :
          /\ ret[i].match_score = FromInt(100)
          /\ FGt(FMul(calculate_match_score(CatalogRow(ret[i].idx), call.user_targets),
                      FAdd(FromInt(1),
                           calculate_preference_bonus(CatalogRow(ret[i].idx),
                                                      call.medical_conditions))),
                 FromInt(100))

\* the tier-3 score of a predicted rating: (rating - 1) / 4 * 100
RatingScore(rating) == FMul(FDiv(FSub(rating, FromInt(1)), FromInt(4)), FromInt(100))

\* C7: in every row recommend_hybrid returns, hybrid_score is match_score * 0.7 +
\* tier3_score * 0.3 as the floating-point arithmetic gives it; with a model and a
\* user id tier3_score is (predicted_rating - 1) / 4 * 100 for a rating the model
\* predicts for that user, and 50 otherwise; both scores lie in [0, 100].
C7_HybridScore ==
    call.op = "recommend_hybrid" =>
        \A i \in DOMAIN ret :
            /\ ret[i].hybrid_score =
                   FAdd(FMul(ret[i].match_score, Dec(7, 10)), FMul(ret[i].tier3_score, Dec(3, 10)))
            /\ IF tier3.has_tier3 /\ call.user_id # NoUser
               THEN \E similar_users \in NeighbourOrders(tier3.tier3_model, call.user_id) :
                    \E recipe_id \in {ret[i].idx, CatalogRow(ret[i].idx).Srno} :
                        ret[i].tier3_score =
                            RatingScore(predict(tier3.tier3_model, similar_users,
                                                call.user_id, recipe_id))
               ELSE ret[i].tier3_score = FromInt(50)
            /\ InUnitRange(ret[i].tier3_score)
            /\ InUnitRange(ret[i].hybrid_score)

\* C7 is exercised: a hybrid request for a user the model knows returned a recipe
\* whose tier-3 score is not the neutral 50 and whose match score is not the same
C7_Personalised ==
    /\ call.op = "recommend_hybrid"
    /\ tier3.has_tier3
    /\ call.user_id # NoUser
    /\ \E i \in DOMAIN ret :
          /\ ret[i].tier3_score # FromInt(50)
          /\ ret[i].tier3_score # ret[i].match_score

\* C8: predict returns a rating in [1, 5] for every (user_id, recipe_id); for a
\* user or recipe the training data did not have, SimpleSVD returns 3.5 and
\* SimpleUserCF its global mean.
C8_PredictRange ==
    call.op = "predict" =>
        LET model  == tier3.tier3_model
            unseen ==
                ~InList(call.user_id, model.user_ids) \/ ~InList(call.recipe_id, model.recipe_ids)
        IN  /\ FGe(ret, FromInt(1))
            /\ FLe(ret, FromInt(5))
            /\ (unseen /\ model.kind = "svd") => ret = Dec(35, 10)
            /\ (unseen /\ model.kind = "usercf") => ret = model.global_mean

\* C8 is exercised: a prediction for a known user and recipe came out at the
\* upper end of the range from a raw value above it
C8_Clipped ==
    /\ call.op = "predict"
    /\ tier3.tier3_model.kind = "svd"
    /\ InList(call.user_id, tier3.tier3_model.user_ids)
    /\ InList(call.recipe_id, tier3.tier3_model.recipe_ids)
    /\ ret = FromInt(5)
    /\ FGt(FAdd(Dot([j \in 1..Len(tier3.tier3_model.sigma) |->
                        Dot(tier3.tier3_model.U[IndexOf(call.user_id, tier3.tier3_model.user_ids)],
                            Column(tier3.tier3_model.sigma, j))],
                    Column(tier3.tier3_model.Vt,
                           IndexOf(call.recipe_id, tier3.tier3_model.recipe_ids))),
                tier3.tier3_model.user_means[IndexOf(call.user_id, tier3.tier3_model.user_ids)]),
           FromInt(5))

\* C9 (as stated): the percentages calculate_macros returns add up to 100.
C9_PercentsSumTo100 ==
    call.op = "calculate_macros" =>
        ret.protein_percent + ret.carbs_percent + ret.fat_percent = 100

\* C10: target_calories is round(max(floor, tdee + delta)) with delta -500 for
\* weight_loss, +300 for muscle_gain and 0 otherwise, and floor 1200 for gender
\* F (in either case) and 1500 otherwise; so it is never below the floor, and a
\* maintenance profile with a TDEE above the floor gets round(TDEE).
C10_TargetCalories ==
    (call.op = "generate_personalized_plan" /\ ret.status = "ok") =>
        LET profile  == call.user_profile
            floor    == IF profile.gender \in {<<"F">>, <<"f">>} THEN 1200 ELSE 1500
            delta    == IF profile.goal = "weight_loss" THEN -500
                        ELSE IF profile.goal = "muscle_gain" THEN 300 ELSE 0
            adjusted == FAdd(ret.tdee, FromInt(delta))
        IN  /\ ret.target_calories >= floor
            /\ ret.target_calories =
                   FRoundInt(IF FGt(adjusted, FromInt(floor)) THEN adjusted ELSE FromInt(floor))
            /\ (delta = 0 /\ FGt(ret.tdee, FromInt(floor))) =>
                   ret.target_calories = FRoundInt(ret.tdee)

\* C10 is exercised: a female profile whose TDEE less 500 is under 1200 got 1200
C10_FloorApplied ==
    /\ call.op = "generate_personalized_plan"
    /\ ret.status = "ok"
    /\ call.user_profile.gender \in {<<"F">>, <<"f">>}
    /\ call.user_profile.goal = "weight_loss"
    /\ FLt(FSub(ret.tdee, FromInt(500)), FromInt(1200))
    /\ ret.target_calories = 1200

\* the multiplier the claim's table gives an activity level, in thousandths
TableMultiplier(activity_level) ==
    CASE activity_level = "sedentary" -> 1200
      [] activity_level = "lightly_active" -> 1375
      [] activity_level = "moderately_active" -> 1550
      [] activity_level = "very_active" -> 1725
      [] activity_level = "extra_active" -> 1900
      [] OTHER -> 1200

\* C11: calculate_bmr returns 10*w + 6.25*h - 5*a + 5 for gender M or m and
\* 10*w + 6.25*h - 5*a - 161 for gender F or f, to 2 decimals (the value is
\* computed here in hundredths, in integers); (55, M, 90, 175) gives 1723.75;
\* calculate_tdee returns bmr times the table value of the activity level, 1.2
\* for a level the table lacks, rounded to 2 decimals.
C11_MifflinStJeor ==
    /\ call.op = "calculate_bmr" =>
           LET hundredths == 1000 * call.weight_kg + 625 * call.height_cm - 500 * call.age
           IN  /\ call.gender \in {<<"M">>, <<"m">>} => ret = Dec(hundredths + 500, 100)
               /\ call.gender \in {<<"F">>, <<"f">>} => ret = Dec(hundredths - 16100, 100)
               /\ (call.age = 55 /\ call.gender = <<"M">> /\ call.weight_kg = 90
                      /\ call.height_cm = 175) => ret = Dec(172375, 100)
    /\ call.op = "calculate_tdee" =>
           ret = FRound2(FMul(call.bmr, Dec(TableMultiplier(call.activity_level), 1000)))

\* C11 is exercised: the BMR 1723.75 of (55, M, 90, 175) went to calculate_tdee
\* with a level the table lacks and 2068.5 came back
C11_UnknownLevel ==
    /\ call.op = "calculate_tdee"
    /\ call.activity_level = "unknown"
    /\ call.bmr = Dec(172375, 100)
    /\ ret = Dec(20685, 10)

\* the base split of the claim in hundredths, by goal and vegetarian or not
BaseHundredths(goal, diet_type) ==
    IF goal = "weight_loss"
    THEN IF diet_type \in {<<"V", "e", "g", "e", "t", "a", "r", "i", "a", "n">>, <<"V", "e", "g", "a", "n">>} THEN <<20, 50, 30>> ELSE <<30, 40, 30>>
    ELSE IF goal = "muscle_gain"
    THEN IF diet_type \in {<<"V", "e", "g", "e", "t", "a", "r", "i", "a", "n">>, <<"V", "e", "g", "a", "n">>} THEN <<25, 50, 25>> ELSE <<35, 45, 20>>
    ELSE <<20, 50, 30>>

\* the shifts of the claim in hundredths: each group once, the groups added up
ShiftHundredths(conds) ==
    LET d == IF InList("diabetes", conds) \/ InList("pre_diabetes", conds) THEN 10 ELSE 0
        k == IF InList("kidney_disease", conds) THEN 10 ELSE 0
        h == IF InList("heart_disease", conds) \/ InList("high_cholesterol", conds) THEN 5 ELSE 0
    IN  <<0 - k, k + h - d, d - h>>

\* x is n/100 up to the rounding of a few float additions (1e-9)
NearHundredths(x, n) == FLe(FAbs(FSub(x, Dec(n, 100))), Dec(1, 1000000000))

\* C12: the split calculate_macros uses is the base split of (goal, vegetarian or
\* not) plus the shifts of the listed condition groups, each group once and the
\* groups added up, up to float rounding; without conditions it is the base split
\* exactly, vegetarian maintenance 0.20/0.50/0.30, and vegetarian weight_loss
\* with diabetes gives 0.20/0.40/0.40.
C12_AdditiveAdjustments ==
    call.op = "calculate_macros" =>
        LET base  == BaseHundredths(call.goal, call.diet_type)
            shift == ShiftHundredths(call.medical_conditions)
        IN  /\ \A i \in 1..3 : NearHundredths(trace.pct[i], base[i] + shift[i])
            /\ shift = <<0, 0, 0>> =>
                   trace.pct = <<Dec(base[1], 100), Dec(base[2], 100), Dec(base[3], 100)>>
            /\ (call.goal = "maintenance" /\ call.diet_type = <<"V", "e", "g", "e", "t", "a", "r", "i", "a", "n">>
                   /\ call.medical_conditions = <<>>) =>
                   trace.pct = <<Dec(20, 100), Dec(50, 100), Dec(30, 100)>>
            /\ (call.goal = "weight_loss" /\ call.diet_type = <<"V", "e", "g", "e", "t", "a", "r", "i", "a", "n">>
                   /\ call.medical_conditions = <<"diabetes">>) =>
                   trace.pct = <<Dec(20, 100), Dec(40, 100), Dec(40, 100)>>

\* C12 is exercised: diabetes, pre_diabetes and kidney_disease were listed together,
\* and the carbohydrate share came back at its base value with protein down and fat up
C12_GroupsAccumulate ==
    /\ call.op = "calculate_macros"
    /\ call.medical_conditions = <<"diabetes", "pre_diabetes", "kidney_disease">>
    /\ call.goal = "weight_loss"
    /\ call.diet_type = <<"V", "e", "g", "e", "t", "a", "r", "i", "a", "n">>
    /\ NearHundredths(trace.pct[1], 10)
    /\ NearHundredths(trace.pct[2], 50)
    /\ NearHundredths(trace.pct[3], 40)

\* the operations that build a nutrition plan
PlanOps == {"generate_personalized_plan", "calculate_diet_plan", "complete_meal_plan"}

\* the required fields a profile lacks, in the order of the claim's list
MissingFields(profile) == SelectSeq(RequiredFields, LAMBDA f : f \notin DOMAIN profile)

\* the result is an error that names the field and carries no plan and no recommendations
FailedFor(op, r, field) ==
    CASE op = "generate_personalized_plan" ->
             r.status = "KeyError" /\ r.key = field /\ DOMAIN r = {"status", "key"}
      [] op = "calculate_diet_plan" ->
             r.code = 400 /\ r.error[2] = field /\ DOMAIN r = {"code", "error"}
      [] op = "complete_meal_plan" ->
             r.code = 500 /\ r.error[2] = field /\ DOMAIN r = {"code", "error"}

\* the result carries a plan
Succeeded(op, r) ==
    IF op = "generate_personalized_plan" THEN r.status = "ok"
    ELSE r.code = 200 /\ r.data # <<>>

\* what a result says beyond the echo of the request
Outcome(op, r) ==
    IF op = "complete_meal_plan" /\ r.code = 200
    THEN [nutrition_targets |-> r.data.nutrition_targets, meal_plans |-> r.data.meal_plans]
    ELSE r

\* the outcomes an operation can have for a profile
Outcomes(op, df, profile) ==
    CASE op = "generate_personalized_plan" -> {generate_personalized_plan(profile)}
      [] op = "calculate_diet_plan" -> {calculate_diet_plan(profile)}
      [] op = "complete_meal_plan" -> {Outcome(op, r) : r \in complete_meal_plan(recipe_recommender, df, profile)}

\* C13: whichever way generate_personalized_plan is reached, a profile that lacks a
\* required field ends in an error that names the first missing field, with no plan and
\* no recommendations; a profile with all required fields gets its plan; a profile without
\* diet_type gets what the same profile with diet_type 'Vegetarian' gets, and a profile
\* without medical_conditions what the same profile with the empty list gets.
C13_MissingField ==
    call.op \in PlanOps =>
        /\ MissingFields(call.user_profile) # <<>> =>
               FailedFor(call.op, ret, Head(MissingFields(call.user_profile)))
        /\ MissingFields(call.user_profile) = <<>> => Succeeded(call.op, ret)
        /\ "diet_type" \notin DOMAIN call.user_profile =>
               Outcome(call.op, ret) \in
                   Outcomes(call.op, recipes, With(call.user_profile, "diet_type", <<"V", "e", "g", "e", "t", "a", "r", "i", "a", "n">>))
        /\ "medical_conditions" \notin DOMAIN call.user_profile =>
               Outcome(call.op, ret) \in
                   Outcomes(call.op, recipes, With(call.user_profile, "medical_conditions", <<>>))

\* C13 is exercised: the meal-plan endpoint, which does not look for the fields itself,
\* was asked for a plan without a goal and answered with the error alone
C13_MealPlanRejected ==
    /\ call.op = "complete_meal_plan"
    /\ DOMAIN user1 \ DOMAIN call.user_profile = {"goal"}
    /\ ret.code = 500
    /\ "data" \notin DOMAIN ret

\* the request is scored without the collaborative model
Degraded == ~tier3.has_tier3 \/ call.user_id = NoUser

\* C14: when the model failed to load or the request has no user_id, recommend_hybrid
\* does not raise and every row it returns has tier3_score 50.0; and when predict raises
\* for a candidate, that row has 50.0 and the other rows have the score of their own
\* predictions.
C14_NeutralScore ==
    call.op = "recommend_hybrid" =>
        /\ Degraded => ret # RecommendRaised
        /\ ret # RecommendRaised =>
               \A i \in DOMAIN ret :
                   /\ Degraded => ret[i].tier3_score = FromInt(50)
                   /\ (~Degraded /\ tier3.tier3_model.kind = "other") =>
                          ret[i].tier3_score = IF ret[i].idx \in tier3.tier3_model.raises_for
                                               THEN FromInt(50)
                                               ELSE FMul(FDiv(FSub(tier3.tier3_model.rating, FromInt(1)),
                                                              FromInt(4)), FromInt(100))

\* C15: at most one HybridRecommender instance is ever built, and every request is served
\* by that one instance.
C15_BuiltOnce ==
    /\ built <= 1
    /\ \A t \in Threads : "instance" \in DOMAIN threads[t] => threads[t].instance = 1

\* the responses a request gets from the catalog and the model the process loaded
ResponsesFor(request) ==
    IF request.endpoint = "recommend-hybrid"
    THEN IF recipe_recommender = "None" THEN {HybridNotAvailable}
         ELSE hybrid_endpoint(loaded.recipes, loaded.tier3, request.data)
    ELSE complete_meal_plan(recipe_recommender, loaded.recipes, request.data)

\* C16: under any interleaving of hybrid requests (with their predictions) and meal plans
\* (with their four recommend calls), no statement of a request writes into the catalog,
\* the constraint table or the model, the catalog and the model are as the process
\* loaded them, and every response is one that its own arguments give on them, whatever
\* the other thread did meanwhile.
C16_NoSharedMutation ==
    /\ recipes = loaded.recipes
    /\ tier3 = loaded.tier3
    /\ \A t \in Threads :
           /\ "written" \in DOMAIN threads[t] => threads[t].written = {}
           /\ threads[t].at = "respond" => threads[t].response \in ResponsesFor(threads[t])

\* C16 is exercised: a meal plan is between two of its meals, with a breakfast already
\* chosen, while the other thread holds the recommendations of a hybrid request
C16_Interleaved ==
    \E t, u \in Threads :
        /\ threads[t].at = "meals"
        /\ Len(threads[t].tables) \in 1..3
        /\ threads[t].tables[1] # <<>>
        /\ threads[u].at = "respond"
        /\ threads[u].endpoint = "recommend-hybrid"
        /\ threads[u].response.code = 200
        /\ threads[u].response.data.count > 0

\* C17: every predict call that recommend_hybrid makes for a candidate passes the
\* candidate's Srno, the id the rating records carry.
C17_PredictBySrno ==
    call.op = "recommend_hybrid" =>
        \A p \in trace.predict_calls : p.recipe_id = CatalogRow(p.idx).Srno

\* the rows come in non-increasing order of the score column
NonIncreasing(rows, key) ==
    \A i \in 1..(Len(rows) - 1) : FGe(rows[i][key], rows[i + 1][key])

\* the tables tier 2 gives for the arguments of the call when asked for n rows
Tier2Tables(n) ==
    IF call.op = "recommend"
    THEN recommend(recipes, call.user_targets, call.medical_conditions, call.preferred_cuisines,
                   call.disliked_ingredients, call.allergies, n)
    ELSE recommend(recipes, call.user_targets, call.medical_conditions, <<>>, <<>>, <<>>, n)

\* every row of rows is a row of table, by index label and match_score
DrawnFrom(rows, table) ==
    \A i \in DOMAIN rows : \E j \in DOMAIN table : /\ table[j].idx = rows[i].idx
                                                    /\ table[j].match_score = rows[i].match_score

\* no row of table that is missing from rows has a higher match_score than a row of rows
HighestOf(rows, table) ==
    \A j \in DOMAIN table :
        (\A i \in DOMAIN rows : rows[i].idx # table[j].idx) =>
            \A i \in DOMAIN rows : FLe(table[j].match_score, rows[i].match_score)

\* the number of rows of table with a higher match_score than the row
Better(row, table) ==
    Cardinality({j \in DOMAIN table : FGt(table[j].match_score, row.match_score)})

\* C18: recommend returns at most top_n rows in non-increasing match_score order, and
\* they are the highest-scoring of all it would return without the cut; recommend_hybrid
\* returns at most top_n rows in non-increasing hybrid_score order, each of them a
\* candidate of the tier-2 pipeline that fewer than 50 of the candidates outscore.
C18_TopNOrdered ==
    /\ call.op = "recommend" =>
           /\ Len(ret) <= call.top_n
           /\ NonIncreasing(ret, "match_score")
           /\ \A all \in Tier2Tables(Len(recipes)) : DrawnFrom(ret, all) /\ HighestOf(ret, all)
    /\ call.op = "recommend_hybrid" =>
           /\ Len(ret) <= call.top_n
           /\ NonIncreasing(ret, "hybrid_score")
           /\ \A all \in Tier2Tables(Len(recipes)) :
                  /\ DrawnFrom(ret, all)
                  /\ \A i \in DOMAIN ret : Better(ret[i], all) < 50

\* C18 is exercised: tier 2 has more than 50 candidates, and asked for one row
\* recommend_hybrid returned a row that is not the best nutritional match among them
C18_Reordered ==
    /\ call.op = "recommend_hybrid"
    /\ call.top_n = 1
    /\ Len(ret) = 1
    /\ \E all \in Tier2Tables(Len(recipes)) :
           /\ Len(all) > 50
           /\ FGt(all[1].match_score, ret[1].match_score)

\* the band of the claim for a whole-number gap
GapBand(gap) ==
    IF gap <= 2 THEN "excellent"
    ELSE IF gap <= 5 THEN "good"
    ELSE IF gap <= 10 THEN "moderate"
    ELSE "significant"

\* C19: analyze_protein_gap returns gap = target_protein - recipe protein, the status of
\* the one band the gap lies in (excellent up to 2, negative gaps included; good above 2
\* up to 5; moderate above 5 up to 10; significant above 10), and a suggestion exactly
\* when the gap is above 2; the rows recommend returns carry a suggestion on the same
\* condition.
C19_GapBands ==
    /\ call.op = "analyze_protein_gap" =>
           LET gap == call.target_protein - call.recipe.protein_per_serving
           IN  /\ ret.gap = FromInt(gap)
               /\ ret.status \in {"excellent", "good", "moderate", "significant"}
               /\ ret.status = "excellent" <=> gap <= 2
               /\ ret.status = "good" <=> (2 < gap /\ gap <= 5)
               /\ ret.status = "moderate" <=> (5 < gap /\ gap <= 10)
               /\ ret.status = "significant" <=> gap > 10
               /\ ret.status = GapBand(gap)
               /\ ret.suggestion # "None" <=> gap > 2
    /\ call.op \in {"recommend", "recommend_hybrid"} =>
           \A i \in DOMAIN ret :
               /\ ret[i].protein_gap = FSub(FromInt(call.user_targets.protein_g),
                                            FromInt(CatalogRow(ret[i].idx).protein_per_serving))
               /\ ret[i].protein_suggestion # "None" <=> FGt(ret[i].protein_gap, FromInt(2))

\* C19 is exercised: a gap of exactly 2 was rated excellent with no suggestion
C19_OnTheBound ==
    /\ call.op = "analyze_protein_gap"
    /\ call.target_protein - call.recipe.protein_per_serving = 2
    /\ ret.status = "excellent"
    /\ ret.suggestion = "None"

\* the places (condition of the list, entry of its preferred_ingredients) whose text is
\* found in the recipe's lower-cased ingredients
PreferredFound(recipe, medical_conditions) ==
    {p \in (DOMAIN medical_conditions) \X (1..6) :
        /\ medical_conditions[p[1]] \in DOMAIN MEDICAL_CONSTRAINTS
        /\ "preferred_ingredients" \in DOMAIN MEDICAL_CONSTRAINTS[medical_conditions[p[1]]]
        /\ p[2] <= Len(MEDICAL_CONSTRAINTS[medical_conditions[p[1]]].preferred_ingredients)
        /\ Contains(Lower(recipe.Ingredients),
                    MEDICAL_CONSTRAINTS[medical_conditions[p[1]]].preferred_ingredients[p[2]])}

\* 0.05 times a count, limited to 0.20
BonusFor(count) == FMin(FMul(Dec(5, 100), FromInt(count)), Dec(20, 100))

\* C20: calculate_preference_bonus returns 0.05 for every preferred ingredient of a
\* listed condition found in the recipe's lower-cased ingredients, 0.20 at most; the
\* match_score recommend attaches is min(100, base * (1 + bonus)) when conditions are
\* given and the base score when none is, and is never below the base score.
C20_PreferenceBonus ==
    /\ (call.op = "calculate_preference_bonus" /\ call.recipe.Ingredients # NA) =>
           ret = BonusFor(Cardinality(PreferredFound(call.recipe, call.medical_conditions)))
    /\ call.op = "recommend" =>
           \A i \in DOMAIN ret :
               LET recipe == CatalogRow(ret[i].idx)
                   base == calculate_match_score(recipe, call.user_targets)
                   found == PreferredFound(recipe, call.medical_conditions)
               IN  /\ ret[i].match_score =
                          IF call.medical_conditions # <<>>
                          THEN FMin(FMul(base, FAdd(FromInt(1), BonusFor(Cardinality(found)))),
                                    FromInt(100))
                          ELSE base
                   /\ FGe(ret[i].match_score, base)

\* C20 is exercised: a returned recipe with a preferred ingredient scored above its base
\* score and below 100
C20_Boosted ==
    /\ call.op = "recommend"
    /\ \E i \in DOMAIN ret :
          /\ PreferredFound(CatalogRow(ret[i].idx), call.medical_conditions) # {}
          /\ FGt(ret[i].match_score,
                 calculate_match_score(CatalogRow(ret[i].idx), call.user_targets))
          /\ FLt(ret[i].match_score, FromInt(100))

\* a prediction of the user-based model for a user and a recipe of the training data
KnownUserCF ==
    /\ call.op = "predict"
    /\ tier3.tier3_model.kind = "usercf"
    /\ InList(call.user_id, tier3.tier3_model.user_ids)
    /\ InList(call.recipe_id, tier3.tier3_model.recipe_ids)

\* the neighbours whose ratings entered the prediction of the call
Contributors == Contributing(tier3.tier3_model, trace.similar_users, call.recipe_id)

\* how many users other than the target are more similar to the target than the user at index i
MoreSimilarOthers(model, user_id, i) ==
    LET u == IndexOf(user_id, model.user_ids)
    IN  Cardinality({o \in DOMAIN model.user_ids :
                        /\ o # u
                        /\ FGt(model.similarity_matrix[o][u], model.similarity_matrix[i][u])})

\* C21 (as stated): in a SimpleUserCF prediction for a known user and recipe the target
\* user is not among the contributing neighbours; at most k neighbours contribute, each
\* one of the k most similar other users, with similarity above 0 and a rating of the
\* recipe; the result is the clipped similarity-weighted average of their ratings.
C21_NeighboursOnly ==
    KnownUserCF =>
        LET model == tier3.tier3_model
            col   == IndexOf(call.recipe_id, model.recipe_ids)
        IN  /\ Len(Contributors) <= model.k
            /\ \A i \in DOMAIN Contributors :
                   /\ Contributors[i].user # call.user_id
                   /\ MoreSimilarOthers(model, call.user_id, Contributors[i].idx) < model.k
                   /\ FGt(Contributors[i].similarity, FZero)
                   /\ model.rating_matrix[Contributors[i].idx][col] # 0
            /\ Contributors # <<>> =>
                   ret = Clip15(WeightedAverage(
                             [i \in DOMAIN Contributors |->
                                 FromInt(model.rating_matrix[Contributors[i].idx][col])],
                             [i \in DOMAIN Contributors |-> Contributors[i].similarity]))

\* the observed ratings of a matrix, by place
Observed(ratings) ==
    {p \in (DOMAIN ratings) \X (DOMAIN ratings[1]) : ratings[p[1]][p[2]] # 0}

RECURSIVE SumAt(_, _)
SumAt(ratings, places) ==
    IF places = {} THEN 0
    ELSE LET p == CHOOSE q \in places : TRUE
         IN  ratings[p[1]][p[2]] + SumAt(ratings, places \ {p})

\* the arithmetic mean of all observed ratings
MeanOfObserved(ratings) ==
    FDiv(FromInt(SumAt(ratings, Observed(ratings))), FromInt(Cardinality(Observed(ratings))))

\* a SimpleUserCF prediction that found no rating to average
FellBack ==
    /\ call.op = "predict"
    /\ tier3.tier3_model.kind = "usercf"
    /\ \/ ~InList(call.user_id, tier3.tier3_model.user_ids)
       \/ ~InList(call.recipe_id, tier3.tier3_model.recipe_ids)
       \/ Contributors = <<>>

\* C22 (as stated): a SimpleUserCF prediction for an unknown user or recipe, or with no
\* qualifying neighbour, is the model's global mean, and that is the arithmetic mean of
\* all non-zero entries of the rating matrix (to within 1e-9).
C22_GlobalMean ==
    FellBack =>
        /\ ret = tier3.tier3_model.global_mean
        /\ FLe(FAbs(FSub(ret, MeanOfObserved(tier3.tier3_model.rating_matrix))),
               Dec(1, 1000000000))

\* the share of the day each meal gets, in hundredths
Shares == [breakfast |-> 25, lunch |-> 35, dinner |-> 30, snacks |-> 10]

Quantities == {"calories", "protein_g", "carbs_g", "fat_g"}

\* the daily value of a plan that a meal's quantity is a share of
Daily(plan, k) == IF k = "calories" THEN plan.target_calories ELSE plan.daily_macros[k]

\* every quantity of every meal is the rounded share of the plan's daily value: the
\* float product rounded as round() does, which is a nearest whole number to the share
SharesOfDaily(plan) ==
    \A meal \in DOMAIN Shares, k \in Quantities :
        /\ plan.meal_breakdown[meal][k] =
               FRoundInt(FMul(FromInt(Daily(plan, k)), Dec(Shares[meal], 100)))
        /\ 100 * plan.meal_breakdown[meal][k] - Daily(plan, k) * Shares[meal] \in -50..50

\* C23: in every plan each meal's calories and macro grams are round(daily value * share)
\* with shares 0.25, 0.35, 0.30 and 0.10, each from the rounded daily value; the targets
\* complete_meal_plan builds for the recommender are those values, except that the snack
\* calories are doubled.
C23_MealBreakdown ==
    /\ (call.op = "generate_personalized_plan" /\ ret.status = "ok") => SharesOfDaily(ret)
    /\ (call.op = "complete_meal_plan" /\ ret.code = 200) =>
           LET plan == ret.data.nutrition_targets
           IN  /\ SharesOfDaily(plan)
               /\ DOMAIN plan.meal_breakdown = DOMAIN Shares
               /\ \A meal \in DOMAIN Shares :
                      /\ trace.meal_targets[meal].calories =
                             IF meal = "snacks" THEN 2 * plan.meal_breakdown[meal].calories
                             ELSE plan.meal_breakdown[meal].calories
                      /\ \A k \in Quantities \ {"calories"} :
                             trace.meal_targets[meal][k] = plan.meal_breakdown[meal][k]

\* C23 is exercised: a meal plan was built with a snack target of twice the snack share
C23_SnackDoubled ==
    /\ call.op = "complete_meal_plan"
    /\ ret.code = 200
    /\ ret.data.nutrition_targets.meal_breakdown.snacks.calories > 0
    /\ trace.meal_targets.snacks.calories =
           2 * ret.data.nutrition_targets.meal_breakdown.snacks.calories

\* the conditions of a list that the constraint table knows, in the order of the list
KnownOnly(conds) == SelectSeq(conds, LAMBDA c : c \in DOMAIN MEDICAL_CONSTRAINTS)

IsFilterCall == call.op = "filter_by_medical_constraints"

\* C24: after filter_by_medical_constraints every surviving recipe has exactly the
\* Diet a listed condition requires, and its ingredient text contains, in any case, no
\* avoid_ingredients entry of a listed condition; conditions the table does not have
\* change nothing.
C24_DietAndAvoided ==
    IsFilterCall =>
        /\ \A i \in DOMAIN ret : \A cond \in Known(call.medical_conditions) :
               LET c == MEDICAL_CONSTRAINTS[cond]
               IN  /\ "required_diet" \in DOMAIN c => ret[i].Diet = c.required_diet
                   /\ "avoid_ingredients" \in DOMAIN c =>
                          \A j \in DOMAIN c.avoid_ingredients :
                              ~Contains(Lower(ret[i].Ingredients), Lower(c.avoid_ingredients[j]))
        /\ ret = filter_by_medical_constraints(recipes, KnownOnly(call.medical_conditions))
        /\ KnownOnly(call.medical_conditions) = <<>> => ret = recipes

\* C24 is exercised: a recipe within the carbohydrate ceiling of pre_diabetes, listing
\* "Sugar" with a capital letter, was removed and another recipe survived
C24_CapitalSugar ==
    /\ IsFilterCall
    /\ call.medical_conditions = <<"pre_diabetes">>
    /\ ret # <<>>
    /\ \E i \in DOMAIN recipes :
          /\ recipes[i].carbohydrate_per_serving <= MEDICAL_CONSTRAINTS.pre_diabetes.max_carbs_per_serving
          /\ ~Contains(recipes[i].Ingredients, <<"s", "u", "g", "a", "r">>)
          /\ Contains(Lower(recipes[i].Ingredients), <<"s", "u", "g", "a", "r">>)
          /\ \A j \in DOMAIN ret : ret[j].idx # recipes[i].idx

\* the course tags a snack request accepts, and the keywords of names that are not food
SnackCourses == {<<"s", "n", "a", "c", "k">>, <<"a", "p", "p", "e", "t", "i", "z", "e", "r">>, <<"s", "t", "a", "r", "t", "e", "r">>, <<"s", "i", "d", "e">>, <<"d", "e", "s", "s", "e", "r", "t">>}

NonFoodKeywords == {<<"m", "a", "s", "a", "l", "a">>, <<"s", "p", "i", "c", "e", " ", "m", "i", "x">>, <<"p", "a", "s", "t", "e">>, <<"c", "h", "u", "t", "n", "e", "y">>, <<"p", "i", "c", "k", "l", "e">>,
                    <<"p", "o", "w", "d", "e", "r">>, <<"s", "e", "a", "s", "o", "n", "i", "n", "g">>, <<"s", "a", "u", "c", "e", " ", "m", "i", "x">>, <<"c", "u", "r", "r", "y", " ", "p", "o", "w", "d", "e", "r">>}

\* the recipe's Course matches the requested course
CourseAsRequested(r, user_targets) ==
    LET course == Lower(Get(user_targets, "course", <<"B", "r", "e", "a", "k", "f", "a", "s", "t">>))
    IN  IF Contains(course, <<"s", "n", "a", "c", "k">>)
        THEN \E c \in SnackCourses : Contains(Lower(r.Course), c)
        ELSE \E alt \in Alternatives(course, <<>>) : Contains(Lower(r.Course), alt)

\* the recipe's Diet matches the requested diet: one of the mapped values, or for a diet
\* the mapping does not have, a Diet that contains the requested text
DietAsRequested(r, user_targets) ==
    IF DietValues(DietInput(user_targets)) # <<>>
    THEN InList(r.Diet, DietValues(DietInput(user_targets)))
    ELSE Contains(Lower(r.Diet), Lower(Get(user_targets, "diet", <<"V", "e", "g", "e", "t", "a", "r", "i", "a", "n">>)))

\* C25 (as stated): every recipe recommend returns matches the requested course, the
\* requested diet and the time limit, and its name holds no non-food keyword, whether
\* it was found on the first pass or on the relaxed retry.
C25_BasicConstraints ==
    call.op = "recommend" =>
        \A i \in DOMAIN ret :
            LET r == CatalogRow(ret[i].idx)
            IN  /\ CourseAsRequested(r, call.user_targets)
                /\ DietAsRequested(r, call.user_targets)
                /\ r.TotalTimeInMins <= MaxTime(call.user_targets)
                /\ \A k \in NonFoodKeywords : ~Contains(Lower(r.RecipeName), k)

\* the catalog recipes that pass Step 1 for the request, its dislikes and allergies, and
\* the medical filter for its conditions, whatever their cuisine
SafeWithoutCuisine ==
    filter_by_medical_constraints(
        filter_by_preferences(BasicFilter(recipes, call.user_targets, FALSE), <<>>,
                              call.disliked_ingredients, call.allergies),
        call.medical_conditions)

\* C26 (as stated): when some catalog recipe passes the course, diet and time filters,
\* the dislike and allergen exclusions and the medical filter of the request, recommend
\* returns a recipe, whatever the preferred cuisines are.
C26_CuisineNeverEmpties ==
    (call.op = "recommend" /\ SafeWithoutCuisine # <<>>) => ret # <<>>

\* a recommend_hybrid call that no model scores: none is loaded, or no user_id is given
ContentOnly ==
    /\ call.op = "recommend_hybrid"
    /\ ~tier3.has_tier3 \/ call.user_id = NoUser

\* the index labels of a table, in its order
Labels(table) == [i \in DOMAIN table |-> table[i].idx]

C27_ContentRankingUpTo50 ==
    (ContentOnly /\ call.top_n <= 50) =>
        \E content \in Tier2Tables(call.top_n) : Labels(ret) = Labels(content)

\* the hybrid score of a match_score in content-only mode
ContentHybridScore(match_score) ==
    FAdd(FMul(match_score, Dec(7, 10)), FMul(FromInt(50), Dec(3, 10)))

Backwards(list) == [i \in DOMAIN list |-> list[Len(list) + 1 - i]]

\* the rows of a table, as a set
RowSet(table) == {table[i] : i \in DOMAIN table}

\* the rows of a table that another has, in the order of the first
Kept(table, other) == SelectSeq(table, LAMBDA r : r \in RowSet(other))

\* C28: filter_by_medical_constraints is a pure narrowing: what it returns is the input
\* with rows left out; filtering the result again with the same conditions changes
\* nothing; the conditions backwards, or with any of them or all of them repeated, give
\* the same result; and one more condition, known or not, gives the result with rows left
\* out, the same as filtering the result by that condition alone.
C28_PureNarrowing ==
    IsFilterCall =>
        LET conds == call.medical_conditions
        IN  /\ ret = Kept(recipes, ret)
            /\ filter_by_medical_constraints(ret, conds) = ret
            /\ filter_by_medical_constraints(recipes, Backwards(conds)) = ret
            /\ filter_by_medical_constraints(recipes, conds \o conds) = ret
            /\ \A i \in DOMAIN conds :
                   filter_by_medical_constraints(recipes, conds \o <<conds[i]>>) = ret
            /\ \A c \in RowSet(ConditionChoices) \cup {"asthma"} :
                   LET more == filter_by_medical_constraints(recipes, conds \o <<c>>)
                   IN  /\ more = Kept(ret, more)
                       /\ more = filter_by_medical_constraints(ret, <<c>>)

\* C28 is exercised: two conditions each remove a recipe the other keeps, some recipe is
\* left, and a third condition removes one more
C28_NarrowedTwice ==
    /\ IsFilterCall
    /\ Len(call.medical_conditions) = 2
    /\ ret # <<>>
    /\ Len(filter_by_medical_constraints(recipes, <<call.medical_conditions[1]>>)) > Len(ret)
    /\ Len(filter_by_medical_constraints(recipes, <<call.medical_conditions[2]>>)) > Len(ret)
    /\ \E c \in RowSet(ConditionChoices) :
           Len(filter_by_medical_constraints(recipes, call.medical_conditions \o <<c>>)) < Len(ret)

\* the three macro grams of a table calculate_macros returned
MacroGrams(macros) == {macros.protein_g, macros.carbs_g, macros.fat_g}

\* C29: for every goal, diet_type and list of conditions the split calculate_macros works
\* with is the adjusted one, its sum being within 0.01 of 1 so that carbs_pct is not
\* recomputed; each share is strictly between 0 and 1, protein at least 0.10, carbs at
\* least 0.30 and fat at least 0.15; and no gram target is negative, in the table it
\* returns and in the macros of a plan.
C29_SharesInRange ==
    /\ call.op = "calculate_macros" =>
           LET adjusted == AdjustedPct(call.goal, call.medical_conditions, call.diet_type)
           IN  /\ ~NeedsCorrection(adjusted)
               /\ trace.pct = adjusted
               /\ \A i \in 1..3 : FGt(trace.pct[i], FZero) /\ FLt(trace.pct[i], FromInt(1))
               /\ FGe(trace.pct[1], Dec(10, 100))
               /\ FGe(trace.pct[2], Dec(30, 100))
               /\ FGe(trace.pct[3], Dec(15, 100))
               /\ \A g \in MacroGrams(ret) : g >= 0
    /\ (call.op = "generate_personalized_plan" /\ "macros" \in DOMAIN ret) =>
           \A g \in MacroGrams(ret.macros) : g >= 0

\* C29 is exercised: all three adjustments were made and the protein share is at its
\* lower bound
C29_AllAdjusted ==
    /\ call.op = "calculate_macros"
    /\ InList("diabetes", call.medical_conditions)
    /\ InList("kidney_disease", call.medical_conditions)
    /\ InList("heart_disease", call.medical_conditions)
    /\ trace.pct[1] = Dec(10, 100)
    /\ ret.protein_g > 0

\* a recommend call for celiac disease whose diet DIET_MAPPING maps to Diet values
\* other than 'Gluten Free'
CeliacWithMappedDiet ==
    /\ call.op = "recommend"
    /\ InList("celiac_disease", call.medical_conditions)
    /\ DietValues(DietInput(call.user_targets)) # <<>>
    /\ ~InList(<<"G", "l", "u", "t", "e", "n", " ", "F", "r", "e", "e">>, DietValues(DietInput(call.user_targets)))

\* C30: a recommend request with celiac_disease among the conditions and a diet mapped
\* to Diet values without 'Gluten Free' (vegetarian, vegan, non-vegetarian, eggetarian)
\* returns no recommendation, whatever the catalog.
C30_CeliacReturnsNothing ==
    CeliacWithMappedDiet => ret = <<>>

\* C30 is exercised: the same request without the conditions finds a recipe, and the
\* catalog has a recipe the conditions allow, but the request returns none
C30_SafeRecipeLost ==
    /\ CeliacWithMappedDiet
    /\ ret = <<>>
    /\ filter_by_medical_constraints(recipes, call.medical_conditions) # <<>>
    /\ \E table \in recommend(recipes, call.user_targets, <<>>, call.preferred_cuisines,
                               call.disliked_ingredients, call.allergies, call.top_n) :
           table # <<>>

====
